---- MODULE Spec2Model ----
(***************************************************************************)
(* Model of the orchestration core of veritas: ResearchWorkflow.execute    *)
(* and execute_sequential (src/orchestration/workflow.py), the agent-level *)
(* retry of BaseAgent.execute (src/agents/base.py), the CircuitBreaker     *)
(* (src/infrastructure/circuit_breaker.py), and ResilientLLMWrapper        *)
(* (src/infrastructure/llm.py) with is_retryable_error (src/config/retry.py), *)
(* the model invocations of one agent stage (src/agents/*.py), and         *)
(* executions running concurrently on one workflow.                        *)
(***************************************************************************)
EXTENDS Integers, Sequences, FiniteSets, TLC

(***************************************************************************)
(* Bounds of the exploration.                                              *)
(***************************************************************************)
\* largest max_iterations a workflow is constructed with
MaxIterations == 2
\* review scores and thresholds are drawn from 0..MaxScore (a scale of [0,1])
MaxScore == 2

\* largest failure_threshold / success_threshold a breaker is configured with
MaxThreshold == 3
\* largest cooldown_seconds a breaker is configured with
MaxCooldown == 2
\* the clock runs from 0 to MaxTime
MaxTime == 3
\* number of outcomes recorded on one breaker
MaxCalls == 5
\* calls through CircuitBreaker.call that may be in flight together
MaxPending == 1
\* largest max_attempts a RetryConfig is constructed with
MaxAttempts == 3
\* largest attempt number get_delay is asked for
MaxAttemptNumber == 6
\* number of get_or_create calls made on the registry
MaxRegistryCalls == 4
\* ainvoke calls running concurrently on one breaker
MaxCallers == 2
\* longest list of findings of a ResearchCompleted event
MaxFindings == 2
\* longest list of claims in a model response
MaxClaims == 3
\* number of AgentContext.create calls
MaxContexts == 2
\* executions running concurrently on one ResearchWorkflow
MaxExecutions == 2

(***************************************************************************)
(* Program constants.                                                      *)
(***************************************************************************)
\* stop_after_attempt(3) on BaseAgent._execute_with_retry
AgentMaxAttempts == 3

VARIABLES
    max_iterations,          \* ResearchWorkflow.max_iterations
    auto_approve_threshold,  \* ResearchWorkflow.auto_approve_threshold
    mode,                    \* "idle", "execute" or "execute_sequential"
    pc,                      \* the agent call the run is suspended in
    iteration,               \* loop variable of the review loop
    attempt,                 \* attempt number of the current _run (tenacity)
    result,                  \* the WorkflowResult being accumulated
    calls,                   \* history: agents in the order their execute was entered
    reviews,                 \* history: reviews the Critic returned, in order
    failedCall,              \* history: agent whose call raised, or "none"
    raisedExc,               \* history: exception the failing _run raised last
    nextId,                  \* source of fresh event ids (uuid4)
    context,                 \* the AgentContext of the run, NULL before a run
    inputs,                  \* history: the input each entered execute was given
    statuses                 \* history: the values result.status took, in order

VARIABLES
    config,                  \* CircuitBreaker.config
    cb_state,                \* CircuitBreaker._state
    cb_stats,                \* CircuitBreaker._stats
    cb_failure_count,        \* CircuitBreaker._failure_count
    cb_success_count,        \* CircuitBreaker._success_count
    cb_last_failure_time,    \* CircuitBreaker._last_failure_time
    cb_opened_at,            \* CircuitBreaker._opened_at
    now,                     \* datetime.utcnow()
    notified,                \* history: (old, new) pairs passed to on_state_change
    cb_run,                  \* history: failures recorded since the last success
    cb_episode,              \* history: successes recorded since HALF_OPEN was entered
    cb_last,                 \* history: the operation performed last
    cb_ret,                  \* history: what the last operation returned or raised
    cb_pending,              \* operations awaited inside CircuitBreaker.call
    cb_opexc                 \* history: exception the wrapped operation raised in the last step

\* the breaker object and the clock
cbcore == <<config, cb_state, cb_stats, cb_failure_count, cb_success_count,
            cb_last_failure_time, cb_opened_at, now, notified, cb_run, cb_episode>>

\* the callers' view of the breaker
cbcall == <<cb_last, cb_ret, cb_pending, cb_opexc>>

cbvars == <<cbcore, cbcall>>

VARIABLES
    retry_config,            \* ResilientLLMWrapper._retry_config
    llm_pc,                  \* position of the ainvoke call: idle, attempt, sleep, done
    llm_attempt,             \* tenacity attempt number of the ainvoke call
    llm_outcomes,            \* history: outcome of each model invocation, in order
    llm_slept,               \* history: backoff sleeps taken by the ainvoke call
    llm_ret,                 \* what ainvoke returned or raised
    llm_before               \* history: breaker statistics and counters when ainvoke was entered

llmvars == <<retry_config, llm_pc, llm_attempt, llm_outcomes, llm_slept, llm_ret,
             llm_before>>

wfvars == <<max_iterations, auto_approve_threshold, mode, pc, iteration,
            attempt, result, calls, reviews, failedCall, raisedExc, nextId,
            context, inputs, statuses>>

VARIABLES
    fn,                      \* the function applied last, or "none"
    fn_arg,                  \* the arguments it was applied to
    fn_out                   \* what it returned or raised

funvars == <<fn, fn_arg, fn_out>>

VARIABLES
    reg_breakers,            \* CircuitBreakerRegistry._breakers: name -> breaker object
    reg_heap,                \* the breaker objects created: config and failures recorded
    reg_handles              \* history: what each get_or_create call was given and returned

regvars == <<reg_breakers, reg_heap, reg_handles>>

VARIABLES
    sh_pc,                   \* position of each concurrent ainvoke call
    sh_attempt,              \* tenacity attempt number of each concurrent ainvoke call
    sh_admitted,             \* history: ainvoke calls the breaker admitted
    sh_events                \* history: outcomes of the admitted calls, in completion order

shvars == <<sh_pc, sh_attempt, sh_admitted, sh_events>>

VARIABLES
    ag_name,                 \* the agent whose execute is modelled
    ag_tools,                \* hasattr(self.llm.llm, "bind_tools")
    ag_pc,                   \* position of the execute call
    ag_attempt,              \* tenacity attempt number of _execute_with_retry
    ag_inner,                \* tenacity attempt number inside ainvoke
    ag_step,                 \* model invocation of the current _run: first or second
    ag_inv,                  \* history: the model invocation started in the last step
    ag_invocations,          \* history: model invocations started by the execute call
    ag_all_retryable,        \* history: every invocation so far failed with a retryable error
    ag_open_at_entry,        \* history: the breaker was OPEN when execute was entered
    ag_rejections,           \* history: CircuitOpenError raised by ainvoke
    ag_sleeps,               \* history: backoff sleeps of _execute_with_retry
    ag_exc                   \* what execute raised

agvars == <<ag_name, ag_tools, ag_pc, ag_attempt, ag_inner, ag_step, ag_inv,
            ag_invocations, ag_all_retryable, ag_open_at_entry, ag_rejections,
            ag_sleeps, ag_exc>>

VARIABLES
    cx_pc,                   \* position of each concurrent execution
    cx_iteration,            \* loop variable of each execution's review loop
    cx_context,              \* the AgentContext of each execution, NULL before it starts
    cx_result,               \* the WorkflowResult of each execution
    cx_correlation_id,       \* BaseAgent._correlation_id of each agent of the workflow
    cx_logs                  \* history: the records logged by the agents in the last step

cxvars == <<cx_pc, cx_iteration, cx_context, cx_result, cx_correlation_id, cx_logs>>

vars == <<wfvars, cbvars, llmvars, funvars, regvars, shvars, agvars, cxvars>>

(***************************************************************************)
(* Values.                                                                 *)
(***************************************************************************)
\* Python None in an event slot
NULL == [kind |-> "null"]

\* Optional[str]: <<>> is None, <<m>> is the string m (a sequence of tokens)
None == <<>>
Some(m) == <<m>>

WorkflowStage ==
    {"research", "fact_check", "synthesis", "writing", "review",
     "completed", "failed"}

\* topics offered to execute: sequences of characters
Topics == {<<>>, <<" ">>, <<"q">>, <<" ", "q", " ">>}

\* exceptions an agent's _run may raise: a type name and a message
Exceptions ==
    {[type |-> "Exception", msg |-> <<"Web", "search", "failed">>],
     [type |-> "ConnectionError", msg |-> <<"service", "unavailable">>]}

NoExc == [type |-> "none", msg |-> <<>>]

\* str.strip() on a sequence of characters
RECURSIVE LStrip(_)
LStrip(s) ==
    IF s # <<>> /\ Head(s) = " " THEN LStrip(Tail(s)) ELSE s

RECURSIVE RStrip(_)
RStrip(s) ==
    IF s # <<>> /\ s[Len(s)] = " " THEN RStrip(SubSeq(s, 1, Len(s) - 1)) ELSE s

Strip(s) == RStrip(LStrip(s))

\* needle in hay, for sequences of tokens
Contains(hay, needle) ==
    \E i \in 0..(Len(hay) - Len(needle)) :
        SubSeq(hay, i + 1, i + Len(needle)) = needle

(***************************************************************************)
(* Exceptions and their messages.                                          *)
(***************************************************************************)
\* tenacity.RetryError(last_attempt): raised when the attempts are used up
\* and the decorator was built without reraise=True
RetryError(e) == [type |-> "RetryError", last |-> e]

\* ValueError(f"Invalid input for agent {self.name}")
InvalidInputError(agent) ==
    [type |-> "ValueError", msg |-> <<"Invalid", "input", "for", "agent", agent>>]

\* str(e): an exception built from one message prints that message;
\* RetryError prints "RetryError[<Future at ... state=finished raised T>]"
Str(e) ==
    IF e.type = "RetryError"
    THEN <<"RetryError[", "<Future", "state=finished", "raised", e.last.type, ">]">>
    ELSE e.msg

\* what _execute_with_retry raises once the last attempt has raised e
ExhaustedError(e) == RetryError(e)

(***************************************************************************)
(* Events.                                                                 *)
(***************************************************************************)
\* str(uuid4()): the id-th value drawn
Uuid4(id) == <<"uuid4", ToString(id)>>

\* "correlation_id=correlation_id or str(uuid4())" in the create method of an
\* event, called by the agent with context.correlation_id
CorrelationId(id) ==
    IF context.correlation_id # <<>> THEN context.correlation_id ELSE Uuid4(id)

ResearchCompleted(id) ==
    [kind |-> "research", id |-> id, correlation_id |-> CorrelationId(id)]
FactCheckCompleted(id, r) ==
    [kind |-> "fact_check", id |-> id, research |-> r.id,
     correlation_id |-> CorrelationId(id)]
SynthesisCompleted(id, r, f) ==
    [kind |-> "synthesis", id |-> id, research |-> r.id, fact_check |-> f.id,
     correlation_id |-> CorrelationId(id)]
\* mutant: the Writer returns None
ReportWritten_None(id, s) == NULL

ReportWritten(id, s) ==
    [kind |-> "report", id |-> id, synthesis |-> s.id,
     correlation_id |-> CorrelationId(id)]
ReportReviewed(id, rep, approved, score) ==
    [kind |-> "review", id |-> id, report |-> rep.id,
     approved |-> approved, score |-> score,
     correlation_id |-> CorrelationId(id)]

\* WorkflowResult(status=WorkflowStage.RESEARCH)
WorkflowResult ==
    [status |-> "research", research |-> NULL, fact_check |-> NULL,
     synthesis |-> NULL, report |-> NULL, review |-> NULL,
     error |-> None, iterations |-> 0]

(***************************************************************************)
(* BaseAgent.execute                                                       *)
(***************************************************************************)
\* the agent behind each suspension point
AgentOf(p) ==
    CASE p = "research" -> "researcher"
      [] p = "fact_check" -> "fact_checker"
      [] p \in {"synthesis", "resynthesis"} -> "synthesizer"
      [] p \in {"writing", "rewriting"} -> "writer"
      [] p = "review" -> "critic"
      [] OTHER -> "none"

\* mutant: validate_input accepts every input
ValidateInput_AcceptsAll(agent, input) == TRUE

\* validate_input of the five agents
ValidateInput(agent, input) ==
    CASE agent = "researcher" -> Len(Strip(input)) > 0
      [] agent = "fact_checker" -> input.kind = "research"
      [] agent = "synthesizer" -> TRUE
      [] agent = "writer" -> TRUE
      [] agent = "critic" -> input.kind = "report"

\* mutant: the except clause catches ValueError only
Caught_ValueErrorOnly(e) == e.type = "ValueError"

\* classes derived from Exception, which "except Exception" catches
Caught(e) == e.type \in {"Exception", "ValueError", "ConnectionError", "RetryError"}

\* mutant: the except clause returns a fresh result instead of the accumulated one
Failed_DropsPartial(res, e) ==
    [WorkflowResult EXCEPT !.status = "failed", !.error = Some(Str(e))]

\* the except clause of execute / execute_sequential
Failed(res, e) == [res EXCEPT !.status = "failed", !.error = Some(Str(e))]

\* e is raised inside the try block while the result is res: the except
\* clause turns it into a returned result, anything else leaves the coroutine
Raise(res, e) ==
    IF Caught(e)
    THEN /\ pc' = "done"
         /\ result' = Failed(res, e)
    ELSE /\ pc' = "raised"
         /\ result' = res

\* The workflow, having brought its result to res, awaits the agent call p on
\* input: the call either fails validation at once or suspends in _run.
Await(p, input, res) ==
    /\ calls' = Append(calls, AgentOf(p))
    /\ inputs' = Append(inputs, input)
    /\ attempt' = 1
    /\ raisedExc' = NoExc
    /\ IF ValidateInput(AgentOf(p), input)
       THEN /\ pc' = p
            /\ result' = res
            /\ failedCall' = failedCall
       ELSE /\ Raise(res, InvalidInputError(AgentOf(p)))
            /\ failedCall' = AgentOf(p)

\* the status trace after a value is assigned to result.status
Moved(trace, status) ==
    IF trace # <<>> /\ trace[Len(trace)] = status THEN trace ELSE Append(trace, status)

\* a step that assigns res.status and ends with result': both enter the trace
Assigned(res) == statuses' = Moved(Moved(statuses, res.status), result'.status)

\* the run returns without a further agent call
Return(res) ==
    /\ pc' = "done"
    /\ result' = res
    /\ UNCHANGED <<calls, inputs, attempt, raisedExc, failedCall>>

(***************************************************************************)
(* CircuitBreaker                                                          *)
(***************************************************************************)
\* Optional[datetime]: NoTime is None
NoTime == -1

\* CircuitStats()
CircuitStats ==
    [total_calls |-> 0, successful_calls |-> 0, failed_calls |-> 0,
     last_failure_time |-> NoTime, last_success_time |-> NoTime]

\* the config ResilientLLMWrapper creates its breaker with
LLMCircuitConfig ==
    [failure_threshold |-> 5, success_threshold |-> 3, cooldown_seconds |-> 30]

\* configurations explored for a breaker
Configs ==
    [failure_threshold : 1..MaxThreshold,
     success_threshold : 1..MaxThreshold,
     cooldown_seconds : 0..MaxCooldown]

\* values an operation hands back to its caller
Returned(kind, value) == [type |-> kind, msg |-> <<value>>]

\* CircuitOpenError(...)
CircuitOpenError == [type |-> "CircuitOpenError", msg |-> <<"Circuit", "is", "open">>]

\* CircuitTimeoutError(...)
CircuitTimeoutError ==
    [type |-> "CircuitTimeoutError", msg |-> <<"call", "timed", "out">>]

\* exceptions the operation wrapped by CircuitBreaker.call may raise
OperationErrors ==
    {[type |-> "ValueError", msg |-> <<"test", "error">>],
     [type |-> "TimeoutError", msg |-> <<"inner", "deadline">>]}

\* CircuitBreaker(name, config)
BreakerInit(configs) ==
    /\ config \in configs
    /\ cb_state = "closed"
    /\ cb_stats = CircuitStats
    /\ cb_failure_count = 0
    /\ cb_success_count = 0
    /\ cb_last_failure_time = NoTime
    /\ cb_opened_at = NoTime
    /\ now = 0
    /\ notified = <<>>
    /\ cb_run = 0
    /\ cb_episode = 0
    /\ cb_last = "init"
    /\ cb_ret = Returned("None", "None")
    /\ cb_pending = 0
    /\ cb_opexc = NoExc

\* _transition_to(new_state) from state old: the state after it and the
\* notifications after it
TransitionTo(old, new) ==
    [state |-> new,
     notified |-> IF old # new THEN Append(notified, <<old, new>>) ELSE notified]

\* mutant: the cooldown is not waited for
CooldownElapsed_NoWait == cb_opened_at # NoTime

\* the cooldown test of the state property
CooldownElapsed ==
    cb_opened_at # NoTime /\ cb_opened_at + config.cooldown_seconds < now

\* value returned by the state property
StateValue ==
    IF cb_state = "open" /\ CooldownElapsed THEN "half_open" ELSE cb_state

\* mutant: allow_request looks at nothing
AllowRequest_Always == TRUE

\* mutant: the comparison of allow_request is inverted
AllowRequest_Inverted == StateValue = "open"

\* value returned by allow_request()
AllowRequest == StateValue # "open"

\* effect of evaluating the state property: an OPEN breaker past its cooldown
\* moves to HALF_OPEN
StateRead ==
    /\ IF cb_state = "open" /\ CooldownElapsed
       THEN LET t == TransitionTo(cb_state, "half_open")
            IN  /\ cb_state' = t.state
                /\ notified' = t.notified
                /\ cb_episode' = 0
       ELSE UNCHANGED <<cb_state, notified, cb_episode>>
    /\ UNCHANGED <<config, cb_stats, cb_failure_count, cb_success_count,
                   cb_last_failure_time, cb_opened_at, now, cb_run>>

\* effect of record_success()
SuccessRecorded ==
    /\ cb_run' = 0
    /\ cb_stats' = [cb_stats EXCEPT !.total_calls = @ + 1,
                                    !.successful_calls = @ + 1,
                                    !.last_success_time = now]
    /\ IF cb_state = "half_open"
       THEN /\ cb_episode' = cb_episode + 1
            /\ IF cb_success_count + 1 >= config.success_threshold
               THEN LET t == TransitionTo(cb_state, "closed")
                    IN  /\ cb_failure_count' = 0
                        /\ cb_success_count' = 0
                        /\ cb_state' = t.state
                        /\ notified' = t.notified
               ELSE /\ cb_success_count' = cb_success_count + 1
                    /\ UNCHANGED <<cb_failure_count, cb_state, notified>>
       ELSE UNCHANGED <<cb_failure_count, cb_success_count, cb_state, notified,
                        cb_episode>>
    /\ UNCHANGED <<config, cb_last_failure_time, cb_opened_at, now>>

\* _failure_count after a failure recorded while CLOSED
CountFailure(count) == count + 1

\* mutant: a failed probe leaves the open timestamp as it was
FailureRecorded_KeepsOpenedAt ==
    /\ cb_run' = cb_run + 1
    /\ cb_stats' = [cb_stats EXCEPT !.total_calls = @ + 1,
                                    !.failed_calls = @ + 1,
                                    !.last_failure_time = now]
    /\ cb_last_failure_time' = now
    /\ IF cb_state = "half_open"
       THEN LET t == TransitionTo(cb_state, "open")
            IN  /\ cb_state' = t.state
                /\ notified' = t.notified
                /\ UNCHANGED <<cb_failure_count, cb_opened_at>>
       ELSE IF cb_state = "closed"
       THEN /\ cb_failure_count' = CountFailure(cb_failure_count)
            /\ IF cb_failure_count' >= config.failure_threshold
               THEN LET t == TransitionTo(cb_state, "open")
                    IN  /\ cb_opened_at' = now
                        /\ cb_state' = t.state
                        /\ notified' = t.notified
               ELSE UNCHANGED <<cb_opened_at, cb_state, notified>>
       ELSE UNCHANGED <<cb_failure_count, cb_opened_at, cb_state, notified>>
    /\ UNCHANGED <<config, cb_success_count, now, cb_episode>>

\* effect of record_failure()
FailureRecorded ==
    /\ cb_run' = cb_run + 1
    /\ cb_stats' = [cb_stats EXCEPT !.total_calls = @ + 1,
                                    !.failed_calls = @ + 1,
                                    !.last_failure_time = now]
    /\ cb_last_failure_time' = now
    /\ IF cb_state = "half_open"
       THEN LET t == TransitionTo(cb_state, "open")
            IN  /\ cb_state' = t.state
                /\ notified' = t.notified
                /\ cb_opened_at' = now
                /\ UNCHANGED cb_failure_count
       ELSE IF cb_state = "closed"
       THEN /\ cb_failure_count' = CountFailure(cb_failure_count)
            /\ IF cb_failure_count' >= config.failure_threshold
               THEN LET t == TransitionTo(cb_state, "open")
                    IN  /\ cb_opened_at' = now
                        /\ cb_state' = t.state
                        /\ notified' = t.notified
               ELSE UNCHANGED <<cb_opened_at, cb_state, notified>>
       ELSE UNCHANGED <<cb_failure_count, cb_opened_at, cb_state, notified>>
    /\ UNCHANGED <<config, cb_success_count, now, cb_episode>>

\* reading the state property
ReadState ==
    /\ cb_last' = "state"
    /\ cb_ret' = Returned("CircuitState", StateValue)
    /\ StateRead
    /\ cb_opexc' = NoExc
    /\ UNCHANGED cb_pending
    /\ UNCHANGED <<wfvars, llmvars, funvars, regvars, shvars, agvars, cxvars>>

\* record_success()
RecordSuccess ==
    /\ cb_stats.total_calls + cb_pending < MaxCalls
    /\ cb_last' = "record_success"
    /\ cb_ret' = Returned("None", "None")
    /\ SuccessRecorded
    /\ cb_opexc' = NoExc
    /\ UNCHANGED cb_pending
    /\ UNCHANGED <<wfvars, llmvars, funvars, regvars, shvars, agvars, cxvars>>

\* record_failure()
RecordFailure ==
    /\ cb_stats.total_calls + cb_pending < MaxCalls
    /\ cb_last' = "record_failure"
    /\ cb_ret' = Returned("None", "None")
    /\ FailureRecorded
    /\ cb_opexc' = NoExc
    /\ UNCHANGED cb_pending
    /\ UNCHANGED <<wfvars, llmvars, funvars, regvars, shvars, agvars, cxvars>>

\* call(coro) up to its suspension: rejected by allow_request, or the wrapped
\* operation is started under wait_for
CallBegin ==
    /\ cb_stats.total_calls + cb_pending < MaxCalls
    /\ cb_pending < MaxPending
    /\ StateRead
    /\ cb_opexc' = NoExc
    /\ IF AllowRequest
       THEN /\ cb_last' = "call_admitted"
            /\ cb_ret' = Returned("None", "pending")
            /\ cb_pending' = cb_pending + 1
       ELSE /\ cb_last' = "call_rejected"
            /\ cb_ret' = CircuitOpenError
            /\ UNCHANGED cb_pending
    /\ UNCHANGED <<wfvars, llmvars, funvars, regvars, shvars, agvars, cxvars>>

\* "except asyncio.TimeoutError"
IsTimeoutError(e) == e.type = "TimeoutError"

\* the wrapped operation returns within timeout_seconds
CallReturns ==
    /\ cb_pending > 0
    /\ cb_pending' = cb_pending - 1
    /\ cb_last' = "call_returned"
    /\ cb_ret' = Returned("result", "success")
    /\ cb_opexc' = NoExc
    /\ SuccessRecorded
    /\ UNCHANGED <<wfvars, llmvars, funvars, regvars, shvars, agvars, cxvars>>

\* wait_for gives up after timeout_seconds
CallTimesOut ==
    /\ cb_pending > 0
    /\ cb_pending' = cb_pending - 1
    /\ cb_last' = "call_timeout"
    /\ cb_ret' = CircuitTimeoutError
    /\ cb_opexc' = NoExc
    /\ FailureRecorded
    /\ UNCHANGED <<wfvars, llmvars, funvars, regvars, shvars, agvars, cxvars>>

\* the wrapped operation raises e within timeout_seconds
CallRaises(e) ==
    /\ cb_pending > 0
    /\ cb_pending' = cb_pending - 1
    /\ cb_last' = "call_raised"
    /\ cb_ret' = IF IsTimeoutError(e) THEN CircuitTimeoutError ELSE e
    /\ cb_opexc' = e
    /\ FailureRecorded
    /\ UNCHANGED <<wfvars, llmvars, funvars, regvars, shvars, agvars, cxvars>>

\* time passes
Tick ==
    /\ now < MaxTime
    /\ now' = now + 1
    /\ cb_last' = "tick"
    /\ UNCHANGED <<config, cb_state, cb_stats, cb_failure_count, cb_success_count,
                   cb_last_failure_time, cb_opened_at, notified, cb_run, cb_episode>>
    /\ cb_ret' = Returned("None", "None")
    /\ cb_opexc' = NoExc
    /\ UNCHANGED cb_pending
    /\ UNCHANGED <<wfvars, llmvars, funvars, regvars, shvars, agvars, cxvars>>

(***************************************************************************)
(* is_retryable_error and RetryConfig                                      *)
(***************************************************************************)
\* str.lower() on one token of a message
LowerToken(t) ==
    CASE t = "Rate" -> "rate"
      [] t = "Quota" -> "quota"
      [] t = "You" -> "you"
      [] t = "Billing" -> "billing"
      [] t = "Account" -> "account"
      [] t = "Verified" -> "verified"
      [] t = "VERIFIED" -> "verified"
      [] t = "Partially" -> "partially"
      [] t = "Disputed" -> "disputed"
      [] t = "A" -> "a"
      [] t = "B" -> "b"
      [] OTHER -> t

\* str.lower() on a message
Lower(m) == [i \in 1..Len(m) |-> LowerToken(m[i])]

non_retryable_keywords ==
    {<<"insufficient", "_", "quota">>, <<"billing">>, <<"quota">>,
     <<"exceeded", " ", "your", " ", "current", " ", "quota">>, <<"account">>}

retryable_keywords ==
    {<<"rate", "_", "limit">>, <<"rate", " ", "limit">>,
     <<"too", " ", "many", " ", "requests">>, <<"service", "_", "unavailable">>,
     <<"service", " ", "unavailable">>, <<"temporarily", " ", "unavailable">>,
     <<"api", "_", "error">>}

retryable_types ==
    {"RateLimitError", "APIError", "APITimeoutError", "ServiceUnavailableError",
     "ConnectionError", "TimeoutError"}

\* is_retryable_error deciding on the retryable keywords and types first
IsRetryableError_RetryableFirst(e) ==
    LET exception_message == Lower(Str(e))
    IN  IF \/ \E k \in retryable_keywords : Contains(exception_message, k)
           \/ e.type \in retryable_types
        THEN TRUE
        ELSE FALSE

\* is_retryable_error(exception)
IsRetryableError(e) ==
    LET exception_message == Lower(Str(e))
    IN  IF \E k \in non_retryable_keywords : Contains(exception_message, k)
        THEN FALSE
        ELSE IF \E k \in retryable_keywords : Contains(exception_message, k)
        THEN TRUE
        ELSE e.type \in retryable_types

\* RetryConfig(max_attempts=n) after __post_init__
RetryConfig(n) == [max_attempts |-> IF n < 1 THEN 1 ELSE n]

RETRY_CONFIG_DEFAULT == RetryConfig(5)

\* retry configurations explored for a wrapper
RetryConfigs == {RetryConfig(n) : n \in 0..MaxAttempts}

(***************************************************************************)
(* Functions applied on their own                                          *)
(***************************************************************************)
\* no function applied yet
FunInit ==
    /\ fn = "none"
    /\ fn_arg = <<>>
    /\ fn_out = <<>>

\* function f applied to arg gives out
Applied(f, arg, out) ==
    /\ fn' = f
    /\ fn_arg' = arg
    /\ fn_out' = out
    /\ UNCHANGED <<wfvars, cbvars, llmvars, regvars, shvars, agvars, cxvars>>

\* errors is_retryable_error is asked about
ClassifiedErrors ==
    [type : {"RateLimitError", "TimeoutError", "ValueError", "Exception"},
     msg : {<<"Rate", " ", "limit", " ", "reached">>,
            <<"rate", "_", "limit", ":", " ", "insufficient", "_", "quota">>,
            <<"Billing", " ", "hard", " ", "limit">>,
            <<"Account", " ", "deactivated", ",", " ", "service", " ", "unavailable">>,
            <<"too", " ", "many", " ", "requests">>,
            <<"connection", " ", "reset">>,
            <<>>}]

\* is_retryable_error(e) is called
ClassifyError ==
    /\ fn = "none"
    /\ \E e \in ClassifiedErrors :
           Applied("is_retryable_error", e, IsRetryableError(e))

\* x ** n
RECURSIVE Pow(_, _)
Pow(x, n) == IF n = 0 THEN 1 ELSE x * Pow(x, n - 1)

\* max(a, b)
Max(a, b) == IF a >= b THEN a ELSE b

\* a float as a fraction
Frac(num, den) == [num |-> num, den |-> den]

\* a <= b on fractions
FracLeq(a, b) == a.num * b.den <= b.num * a.den

\* a = b on fractions
FracEq(a, b) == a.num * b.den = b.num * a.den

\* RetryConfig(base_delay, max_delay, exponential_base, jitter) after
\* __post_init__: delays in tenths of a second, exponential_base in halves,
\* jitter in tenths
RetryDelayConfig(base_delay, max_delay, exponential_base, jitter) ==
    [base_delay |-> Max(1, base_delay),
     max_delay |-> Max(Max(1, base_delay), max_delay),
     exponential_base |-> exponential_base,
     jitter |-> Max(0, IF jitter <= 10 THEN jitter ELSE 10)]

\* delay configurations get_delay is asked about
RetryDelayConfigs ==
    {RetryDelayConfig(b, m, e, j) :
         b \in {0, 20, 50}, m \in {0, 300, 600}, e \in 1..4, j \in {0, 1}}

\* mutant: the first attempt waits base_delay
GetDelay_ExponentFromZero(cfg, attempt_number) ==
    LET den == Pow(2, attempt_number - 1)
        raw == Frac(cfg.base_delay * Pow(cfg.exponential_base, attempt_number - 1), den)
        delay == IF FracLeq(raw, Frac(cfg.max_delay, 1))
                 THEN raw ELSE Frac(cfg.max_delay, 1)
    IN  IF cfg.jitter > 0
        THEN {Frac(delay.num * (10 + k * cfg.jitter), delay.den * 10) : k \in {-1, 0, 1}}
        ELSE {delay}

\* the values get_delay(attempt) can return: one without jitter, a range
\* (its ends and its middle) with jitter
GetDelay(cfg, attempt_number) ==
    LET den == Pow(2, attempt_number)
        raw == Frac(cfg.base_delay * Pow(cfg.exponential_base, attempt_number), den)
        delay == IF FracLeq(raw, Frac(cfg.max_delay, 1))
                 THEN raw ELSE Frac(cfg.max_delay, 1)
    IN  IF cfg.jitter > 0
        THEN {Frac(delay.num * (10 + k * cfg.jitter), delay.den * 10) : k \in {-1, 0, 1}}
        ELSE {delay}

\* cfg.get_delay(attempt_number) is called
AskDelay ==
    /\ fn = "none"
    /\ \E cfg \in RetryDelayConfigs, attempt_number \in 1..MaxAttemptNumber :
           \E d \in GetDelay(cfg, attempt_number) :
               Applied("get_delay", [config |-> cfg, attempt |-> attempt_number], d)

(***************************************************************************)
(* Python values decoded from a model response                             *)
(***************************************************************************)
PyNone == [t |-> "none"]
PyStr(s) == [t |-> "str", v |-> s]
PyNum(n) == [t |-> "num", v |-> n]
PyBool(b) == [t |-> "bool", v |-> b]
PyList(l) == [t |-> "list", v |-> l]
PyDict(d) == [t |-> "dict", v |-> d]

\* d.get(key, default)
Get(d, key, default) == IF key \in DOMAIN d.v THEN d.v[key] ELSE default

\* {**d, key: value}
With(d, key, value) ==
    PyDict([k \in DOMAIN d.v \cup {key} |-> IF k = key THEN value ELSE d.v[k]])

\* a call returned value
Ok(value) == [raised |-> "none", value |-> value]

\* a call raised an exception of the given type
Raised(type) == [raised |-> type, value |-> PyNone]

\* what "for x in value" iterates over; not every value is iterable
Iterable(value) == value.t \in {"list", "dict", "str"}

\* the items "for x in value" yields: the elements of a list, the keys of a
\* dict, the characters of a string
Items(value) ==
    CASE value.t = "list" -> value.v
      [] value.t = "str" -> [i \in 1..Len(value.v) |-> PyStr(<<value.v[i]>>)]
      [] value.t = "dict" ->
             LET RECURSIVE Keys(_)
                 Keys(ks) == IF ks = {} THEN <<>>
                             ELSE LET k == CHOOSE k \in ks : TRUE
                                  IN  <<PyStr(<<k>>)>> \o Keys(ks \ {k})
             IN  Keys(DOMAIN value.v)

(***************************************************************************)
(* FactCheckerAgent                                                        *)
(***************************************************************************)
\* ClaimStatus
VERIFIED == <<"verified">>
PARTIALLY_VERIFIED == <<"partially", "_", "verified">>
DISPUTED == <<"disputed">>
UNVERIFIED == <<"unverified">>

valid_statuses == {VERIFIED, PARTIALLY_VERIFIED, DISPUTED, UNVERIFIED}

\* str.replace(" ", "_")
ReplaceSpaces(m) == [i \in 1..Len(m) |-> IF m[i] = " " THEN "_" ELSE m[i]]

\* mutant: an unrecognised status is kept as it is
NormalizeStatus_KeepsUnknown(status) ==
    LET status_normalized == ReplaceSpaces(Lower(status))
    IN  IF status_normalized \in valid_statuses THEN status_normalized ELSE status

\* the status _normalize_claim_statuses gives a claim whose status is a string
NormalizeStatus(status) ==
    LET status_normalized == ReplaceSpaces(Lower(status))
    IN  IF status_normalized \in valid_statuses THEN status_normalized ELSE UNVERIFIED

\* the body of the loop of _normalize_claim_statuses on one item
NormalizeClaim(claim) ==
    IF claim.t # "dict" THEN Raised("AttributeError")
    ELSE LET status == Get(claim, "status", PyStr(<<>>))
         IN  IF status.t # "str" THEN Raised("AttributeError")
             ELSE Ok(With(claim, "status", PyStr(NormalizeStatus(status.v))))

\* _normalize_claim_statuses(claims)
NormalizeClaimStatuses(claims) ==
    IF ~Iterable(claims) THEN Raised("TypeError")
    ELSE LET items == Items(claims)
             bad == {i \in 1..Len(items) : NormalizeClaim(items[i]).raised # "none"}
         IN  IF bad # {}
             THEN NormalizeClaim(items[CHOOSE i \in bad : \A j \in bad : i <= j])
             ELSE Ok(PyList([i \in 1..Len(items) |-> NormalizeClaim(items[i]).value]))

\* s[:n]
Prefix(m, n) == SubSeq(m, 1, IF Len(m) < n THEN Len(m) ELSE n)

\* the fingerprint of a finding and of a claim text is their first 50 characters
FingerprintLen == 50

\* the least element of a non-empty set of numbers
Least(S) == CHOOSE i \in S : \A j \in S : i <= j

\* "any(fingerprint in c.get('text', '').lower()[:50] for c in claims)" for the
\* finding: "covered", "missing", or "raise" when a claim whose text is not a
\* string is reached before a claim that covers the finding
IsCovered(finding, claims) ==
    LET fingerprint == Prefix(Lower(Strip(finding)), FingerprintLen)
        text(i) == Get(claims[i], "text", PyStr(<<>>))
        bad == {i \in 1..Len(claims) : text(i).t # "str"}
        covering == {i \in 1..Len(claims) :
                        /\ text(i).t = "str"
                        /\ Contains(Prefix(Lower(text(i).v), FingerprintLen),
                                    fingerprint)}
    IN  IF bad # {} /\ (covering = {} \/ Least(bad) < Least(covering))
        THEN "raise"
        ELSE IF covering # {} THEN "covered" ELSE "missing"

\* the claim _ensure_claims_coverage creates for a finding
MissingClaim(finding) ==
    PyDict([text |-> PyStr(finding), status |-> PyStr(UNVERIFIED),
            note |-> PyStr(<<"Auto-generated">>)])

\* _ensure_claims_coverage(claims, findings)
EnsureClaimsCoverage(claims, findings) ==
    IF Len(claims) >= Len(findings)
    THEN Ok(PyList(claims))
    ELSE IF \E i \in 1..Len(findings) : IsCovered(findings[i], claims) = "raise"
    THEN Raised("AttributeError")
    ELSE LET NotCovered(f) == IsCovered(f, claims) = "missing"
             missing_findings == SelectSeq(findings, NotCovered)
             missing_claims == [i \in 1..Len(missing_findings) |->
                                    MissingClaim(missing_findings[i])]
         IN  Ok(PyList(claims \o missing_claims))

\* a model response: text without braces, text whose part between the first
\* "{" and the last "}" json.loads rejects, or text whose part between them
\* decodes to the dict data
Response(shape, content, data) ==
    [shape |-> shape, content |-> content, data |-> data]

\* the part of the response between the braces decodes
Decodes(response) == response.shape = "json"

\* FactCheckCompleted.create(claims, verified_claims, confidence_scores)
FactCheckEvent(claims, verified_claims, confidence_scores) ==
    [kind |-> "fact_check", claims |-> claims, verified_claims |-> verified_claims,
     confidence_scores |-> confidence_scores]

\* FactCheckerAgent._run from the model's response on: parsing, status
\* normalisation, coverage, the event
FactCheckerRun(findings, response) ==
    LET fallback == PyList(<<PyDict([text |-> PyStr(response.content),
                                     status |-> PyStr(UNVERIFIED)])>>)
        claims == IF Decodes(response)
                  THEN Get(response.data, "claims", PyList(<<>>))
                  ELSE fallback
        verified_claims == IF Decodes(response)
                           THEN Get(response.data, "verified_claims", PyList(<<>>))
                           ELSE fallback
        confidence_scores == IF Decodes(response)
                             THEN Get(response.data, "confidence_scores", PyDict(<<>>))
                             ELSE PyDict([k \in {response.content} |-> PyNum(5)])
        normalized == NormalizeClaimStatuses(claims)
        verified == NormalizeClaimStatuses(verified_claims)
    IN  IF normalized.raised # "none" THEN normalized
        ELSE IF verified.raised # "none" THEN verified
        ELSE LET covered == EnsureClaimsCoverage(normalized.value.v, findings)
             IN  IF covered.raised # "none" THEN covered
                 ELSE Ok(FactCheckEvent(covered.value.v, verified.value.v,
                                        confidence_scores))

(***************************************************************************)
(* CriticAgent and ResearcherAgent: parsing the response                   *)
(***************************************************************************)
\* strings float() accepts
NumericStrings == {<<"0.7">>, <<"1">>}

\* the number a numeric string stands for, in tenths
ParseFloat(m) == IF m = <<"0.7">> THEN 7 ELSE 10

\* float(value): numbers are in tenths
Float(value) ==
    CASE value.t = "num" -> Ok(value)
      [] value.t = "bool" -> Ok(PyNum(IF value.v THEN 10 ELSE 0))
      [] value.t = "str" ->
             IF value.v \in NumericStrings THEN Ok(PyNum(ParseFloat(value.v)))
             ELSE Raised("ValueError")
      [] OTHER -> Raised("TypeError")

\* bool(value)
Truthy(value) ==
    CASE value.t = "none" -> FALSE
      [] value.t = "bool" -> value.v
      [] value.t = "num" -> value.v # 0
      [] value.t \in {"str", "list"} -> value.v # <<>>
      [] value.t = "dict" -> DOMAIN value.v # {}

\* ReportReviewed.create(suggestions, score, approved)
ReviewEvent(suggestions, score, approved) ==
    [kind |-> "review", suggestions |-> suggestions, score |-> score,
     approved |-> approved]

\* the event CriticAgent._run falls back to
ReviewFallback ==
    ReviewEvent(PyList(<<PyStr(<<"Unable", "to", "parse", "review">>)>>),
                PyNum(5), FALSE)

\* CriticAgent._run from the model's response on
CriticRun(response) ==
    IF ~Decodes(response) THEN Ok(ReviewFallback)
    ELSE LET suggestions == Get(response.data, "suggestions", PyList(<<>>))
             score == Float(Get(response.data, "score", PyNum(5)))
             approved == Truthy(Get(response.data, "approved", PyBool(FALSE)))
         IN  IF score.raised = "ValueError" THEN Ok(ReviewFallback)
             ELSE IF score.raised # "none" THEN score
             ELSE Ok(ReviewEvent(suggestions, score.value, approved))

\* ResearcherAgent._parse_response(content): (sources, findings)
ParseResponse(response) ==
    IF Decodes(response)
    THEN Ok([sources |-> Get(response.data, "sources", PyList(<<>>)),
             findings |-> Get(response.data, "findings", PyList(<<>>))])
    ELSE Ok([sources |-> PyList(<<PyDict([url |-> PyStr(<<>>), title |-> PyStr(<<>>),
                                          date |-> PyStr(<<>>),
                                          content |-> PyStr(response.content)])>>),
             findings |-> PyList(<<PyStr(response.content)>>)])

(***************************************************************************)
(* AgentContext                                                            *)
(***************************************************************************)
\* "x or y" on an Optional[str]: None and the empty string are false
Or(x, y) == IF x # None /\ x[1] # <<>> THEN x[1] ELSE y

\* AgentContext.create(correlation_id)
AgentContextCreate(correlation_id) ==
    [correlation_id |-> Or(correlation_id, <<>>), request_id |-> <<>>]

\* correlation ids a caller supplies: none, the empty string, an id
CorrelationIds == {None, Some(<<>>), Some(<<"run-1">>), Some(<<"run-2">>)}

(***************************************************************************)
(* The functions applied to bounded inputs                                 *)
(***************************************************************************)
\* texts of findings and claims
Texts == {<<"a">>, <<"a", "b">>, <<" ", "A">>}

RECURSIVE ListsOf(_, _)
\* the lists of at most n elements of S
ListsOf(S, n) ==
    IF n = 0 THEN {<<>>}
    ELSE LET shorter == ListsOf(S, n - 1)
         IN  shorter \cup {Append(l, x) : l \in shorter, x \in S}

\* claims a model response holds
ResponseClaims ==
    {PyDict([text |-> PyStr(<<"a">>), status |-> PyStr(<<"VERIFIED">>)]),
     PyDict([text |-> PyStr(<<"b">>),
             status |-> PyStr(<<"Partially", " ", "verified">>)]),
     PyDict([text |-> PyStr(<<" ", "A">>), status |-> PyStr(<<"bogus">>),
             source |-> PyStr(<<"url">>)]),
     PyDict([score |-> PyNum(7)]),
     PyDict([text |-> PyNone, status |-> PyStr(<<"Disputed">>)]),
     PyDict([text |-> PyStr(<<"a">>), status |-> PyNone])}

\* values of the "claims" field that are not lists of claims
OddClaims ==
    {PyNone, PyNum(3), PyStr(<<>>), PyStr(<<"a">>), PyDict(<<>>),
     PyDict([text |-> PyStr(<<"a">>)]), PyList(<<PyStr(<<"a">>)>>)}

\* responses given to the fact-checker
FactCheckResponses ==
    {Response("no_braces", <<"a">>, PyDict(<<>>)),
     Response("invalid_json", <<"{", "a", "}">>, PyDict(<<>>)),
     Response("json", <<"{", "}">>, PyDict(<<>>)),
     Response("json", <<"{", "}">>, PyDict([verified_claims |-> PyNone])),
     Response("json", <<"{", "}">>,
              PyDict([claims |->
                          PyList(<<PyDict([text |-> PyStr(<<"a">>),
                                           status |-> PyStr(<<"verified">>)])>>),
                      verified_claims |->
                          PyList(<<PyDict([text |-> PyStr(<<"b">>),
                                           status |-> PyStr(<<"disputed">>)])>>)]))}
    \cup {Response("json", <<"{", "}">>, PyDict([claims |-> c])) : c \in OddClaims}
    \cup {Response("json", <<"{", "}">>, PyDict([claims |-> PyList(l)])) :
              l \in ListsOf(ResponseClaims, MaxClaims)}

\* responses given to the critic
CriticResponses ==
    {Response("no_braces", <<"fine">>, PyDict(<<>>)),
     Response("invalid_json", <<"{", "a", "}">>, PyDict(<<>>)),
     Response("json", <<"{", "}">>, PyDict(<<>>))}
    \cup {Response("json", <<"{", "}">>,
                   PyDict([score |-> sc, approved |-> ap, suggestions |-> su])) :
              sc \in {PyNum(7), PyStr(<<"0.7">>), PyStr(<<"high">>), PyNone,
                      PyBool(TRUE), PyList(<<>>)},
              ap \in {PyBool(TRUE), PyNone, PyStr(<<"yes">>)},
              su \in {PyList(<<PyStr(<<"shorten">>)>>), PyNone}}

\* responses given to the researcher
ResearcherResponses ==
    {Response("no_braces", <<"a">>, PyDict(<<>>)),
     Response("invalid_json", <<"{", "a", "}">>, PyDict(<<>>)),
     Response("json", <<"{", "}">>, PyDict(<<>>)),
     Response("json", <<"{", "}">>, PyDict([findings |-> PyNone, sources |-> PyNum(1)])),
     Response("json", <<"{", "}">>,
              PyDict([findings |-> PyList(<<>>),
                      sources |-> PyList(<<PyDict([url |-> PyStr(<<"u">>)])>>)])),
     Response("json", <<"{", "}">>,
              PyDict([findings |-> PyList(<<PyStr(<<"a">>)>>), sources |-> PyList(<<>>)]))}

\* FactCheckerAgent._run receives the response
FactCheckerParses ==
    /\ fn = "none"
    /\ \E findings \in ListsOf(Texts, MaxFindings), response \in FactCheckResponses :
           Applied("FactCheckerAgent._run",
                   [findings |-> findings, response |-> response],
                   FactCheckerRun(findings, response))

\* CriticAgent._run receives the response
CriticParses ==
    /\ fn = "none"
    /\ \E response \in CriticResponses :
           Applied("CriticAgent._run", response, CriticRun(response))

\* ResearcherAgent._parse_response is called
ResearcherParses ==
    /\ fn = "none"
    /\ \E response \in ResearcherResponses :
           Applied("ResearcherAgent._parse_response", response,
                   ParseResponse(response))

\* AgentContext.create is called, for the first time or again: the arguments
\* and the contexts of the calls are kept in order
CreateContext ==
    /\ fn \in {"none", "AgentContext.create"}
    /\ Len(fn_arg) < MaxContexts
    /\ \E correlation_id \in CorrelationIds :
           Applied("AgentContext.create", Append(fn_arg, correlation_id),
                   Append(fn_out, AgentContextCreate(correlation_id)))

(***************************************************************************)
(* ResilientLLMWrapper                                                     *)
(***************************************************************************)
\* exceptions the wrapped model client may raise
ModelErrors ==
    {[type |-> "RateLimitError", msg |-> <<"Rate", " ", "limit", " ", "reached">>],
     [type |-> "RateLimitError",
      msg |-> <<"You", " ", "exceeded", " ", "your", " ", "current", " ", "quota">>],
     [type |-> "ConnectionError", msg |-> <<"connection", " ", "reset">>],
     [type |-> "ValueError", msg |-> <<"bad", " ", "prompt">>]}

\* the response of the wrapped model client
ModelResponse == Returned("result", "response")

\* CircuitOpenError("Circuit breaker is open for LLM calls. ...")
LLMCircuitOpenError ==
    [type |-> "CircuitOpenError",
     msg |-> <<"Circuit", "breaker", "is", "open", "for", "LLM", "calls">>]

\* what the wrapper sees of its breaker: statistics and counters
BreakerView ==
    [stats |-> cb_stats, failure_count |-> cb_failure_count,
     success_count |-> cb_success_count]

\* ResilientLLMWrapper(llm, retry_config)
WrapperInit(configs) ==
    /\ retry_config \in configs
    /\ llm_pc = "idle"
    /\ llm_attempt = 0
    /\ llm_outcomes = <<>>
    /\ llm_slept = 0
    /\ llm_ret = Returned("None", "None")
    /\ llm_before = [state |-> "none", view |-> BreakerView]

\* mutant: one attempt fewer than configured
StopAfterAttempt_OffByOne(n) == n + 1 >= retry_config.max_attempts

\* stop_after_attempt(max_attempts), asked after attempt n has failed
StopAfterAttempt(n) == n >= retry_config.max_attempts

\* the retry condition of the decorator: none is given, so every Exception
\* is retried
RetryIf(e) == TRUE

\* reraise=True: the exhausted retry raises the last attempt's exception
Reraise(e) == e

\* ainvoke up to its first suspension: the breaker is asked, and the first
\* attempt is started or CircuitOpenError is raised
AInvoke ==
    /\ llm_pc = "idle"
    /\ StateRead
    /\ cb_last' = "allow_request"
    /\ cb_ret' = Returned("bool", IF AllowRequest THEN "True" ELSE "False")
    /\ llm_before' = [state |-> StateValue, view |-> BreakerView]
    /\ IF AllowRequest
       THEN /\ llm_pc' = "attempt"
            /\ llm_attempt' = 1
            /\ UNCHANGED llm_ret
       ELSE /\ llm_pc' = "done"
            /\ llm_ret' = LLMCircuitOpenError
            /\ UNCHANGED llm_attempt
    /\ UNCHANGED <<retry_config, llm_outcomes, llm_slept>>
    /\ cb_opexc' = NoExc
    /\ UNCHANGED cb_pending
    /\ UNCHANGED <<wfvars, funvars, regvars, shvars, agvars, cxvars>>

\* self._llm.ainvoke(messages) returns
ModelReturns ==
    /\ llm_pc = "attempt"
    /\ llm_outcomes' = Append(llm_outcomes, ModelResponse)
    /\ llm_pc' = "done"
    /\ llm_ret' = ModelResponse
    /\ UNCHANGED <<retry_config, llm_attempt, llm_slept, llm_before>>
    /\ UNCHANGED <<wfvars, cbvars, funvars, regvars, shvars, agvars, cxvars>>

\* self._llm.ainvoke(messages) raises e
ModelRaises(e) ==
    /\ llm_pc = "attempt"
    /\ llm_outcomes' = Append(llm_outcomes, e)
    /\ IF RetryIf(e) /\ ~StopAfterAttempt(llm_attempt)
       THEN /\ llm_pc' = "sleep"
            /\ UNCHANGED llm_ret
       ELSE /\ llm_pc' = "done"
            /\ llm_ret' = IF RetryIf(e) THEN Reraise(e) ELSE e
    /\ UNCHANGED <<retry_config, llm_attempt, llm_slept, llm_before>>
    /\ UNCHANGED <<wfvars, cbvars, funvars, regvars, shvars, agvars, cxvars>>

\* the backoff sleep between two attempts is over
BackoffSleep ==
    /\ llm_pc = "sleep"
    /\ llm_slept' = llm_slept + 1
    /\ llm_attempt' = llm_attempt + 1
    /\ llm_pc' = "attempt"
    /\ UNCHANGED <<retry_config, llm_outcomes, llm_ret, llm_before>>
    /\ UNCHANGED <<wfvars, cbvars, funvars, regvars, shvars, agvars, cxvars>>

\* another holder of the registry's breaker records a failure
SharedBreakerFails ==
    /\ llm_pc = "idle"
    /\ RecordFailure

\* another holder of the registry's breaker records a success
SharedBreakerSucceeds ==
    /\ llm_pc = "idle"
    /\ RecordSuccess

\* time passes before ainvoke is called
TimePasses ==
    /\ llm_pc = "idle"
    /\ Tick

(***************************************************************************)
(* CircuitBreakerRegistry                                                  *)
(***************************************************************************)
\* CircuitBreakerConfig()
DefaultCircuitConfig ==
    [failure_threshold |-> 5, success_threshold |-> 3, cooldown_seconds |-> 30]

\* names breakers are asked for: f"llm_{llm_name}"
BreakerNames == {"llm_gpt-4o-mini", "llm_unknown"}

\* config arguments of get_or_create: None or a configuration
ConfigArgs == {NULL, LLMCircuitConfig, DefaultCircuitConfig}

\* CircuitBreaker(name, config): a new object
NewBreaker(name, cfg) ==
    [name |-> name,
     config |-> IF cfg = NULL THEN DefaultCircuitConfig ELSE cfg,
     failure_count |-> 0]

\* the class attribute _breakers = {}
RegistryInit ==
    /\ reg_breakers = <<>>
    /\ reg_heap = <<>>
    /\ reg_handles = <<>>

\* the object _breakers holds under name, 0 if it holds none
Lookup(breakers, name) ==
    IF \E i \in 1..Len(breakers) : breakers[i].name = name
    THEN (CHOOSE i \in 1..Len(breakers) : breakers[i].name = name)
    ELSE 0

\* mutant: a config passed later replaces the breaker
GetOrCreate_Replaces(name, cfg) ==
    /\ Len(reg_handles) < MaxRegistryCalls
    /\ IF Lookup(reg_breakers, name) = 0 \/ cfg # NULL
       THEN /\ reg_heap' = Append(reg_heap, NewBreaker(name, cfg))
            /\ reg_breakers' =
                   IF Lookup(reg_breakers, name) = 0
                   THEN Append(reg_breakers, [name |-> name, id |-> Len(reg_heap) + 1])
                   ELSE [reg_breakers EXCEPT ![Lookup(reg_breakers, name)].id =
                                                  Len(reg_heap) + 1]
       ELSE UNCHANGED <<reg_breakers, reg_heap>>
    /\ reg_handles' =
           Append(reg_handles,
                  [name |-> name, config |-> cfg,
                   id |-> reg_breakers'[Lookup(reg_breakers', name)].id])
    /\ UNCHANGED <<wfvars, cbvars, llmvars, funvars, shvars, agvars, cxvars>>

\* CircuitBreakerRegistry.get_or_create(name, config)
GetOrCreate(name, cfg) ==
    /\ Len(reg_handles) < MaxRegistryCalls
    /\ IF Lookup(reg_breakers, name) = 0
       THEN /\ reg_heap' = Append(reg_heap, NewBreaker(name, cfg))
            /\ reg_breakers' =
                   Append(reg_breakers, [name |-> name, id |-> Len(reg_heap) + 1])
       ELSE UNCHANGED <<reg_breakers, reg_heap>>
    /\ reg_handles' =
           Append(reg_handles,
                  [name |-> name, config |-> cfg,
                   id |-> reg_breakers'[Lookup(reg_breakers', name)].id])
    /\ UNCHANGED <<wfvars, cbvars, llmvars, funvars, shvars, agvars, cxvars>>

\* the holder of the h-th returned breaker records a failure on it
HolderRecordsFailure(h) ==
    /\ h \in 1..Len(reg_handles)
    /\ reg_heap[reg_handles[h].id].failure_count < MaxThreshold
    /\ reg_heap' = [reg_heap EXCEPT ![reg_handles[h].id].failure_count = @ + 1]
    /\ UNCHANGED <<reg_breakers, reg_handles>>
    /\ UNCHANGED <<wfvars, cbvars, llmvars, funvars, shvars, agvars, cxvars>>

(***************************************************************************)
(* Concurrent ainvoke calls on one breaker                                 *)
(***************************************************************************)
\* the breaker object as a value
BreakerValue ==
    [state |-> cb_state, stats |-> cb_stats,
     failure_count |-> cb_failure_count, success_count |-> cb_success_count,
     last_failure_time |-> cb_last_failure_time, opened_at |-> cb_opened_at]

\* the state property evaluated at time t on the breaker b
ReadOn(b, t) ==
    IF b.state = "open" /\ b.opened_at # NoTime
       /\ b.opened_at + config.cooldown_seconds < t
    THEN [b EXCEPT !.state = "half_open"]
    ELSE b

\* record_success() at time t on the breaker b
RecordSuccessOn(b, t) ==
    LET counted == [b EXCEPT !.stats.total_calls = @ + 1,
                             !.stats.successful_calls = @ + 1,
                             !.stats.last_success_time = t]
    IN  IF b.state = "half_open"
        THEN IF b.success_count + 1 >= config.success_threshold
             THEN [counted EXCEPT !.failure_count = 0, !.success_count = 0,
                                  !.state = "closed"]
             ELSE [counted EXCEPT !.success_count = @ + 1]
        ELSE counted

\* record_failure() at time t on the breaker b
RecordFailureOn(b, t) ==
    LET counted == [b EXCEPT !.stats.total_calls = @ + 1,
                             !.stats.failed_calls = @ + 1,
                             !.stats.last_failure_time = t,
                             !.last_failure_time = t]
    IN  IF b.state = "half_open"
        THEN [counted EXCEPT !.state = "open", !.opened_at = t]
        ELSE IF b.state = "closed"
        THEN IF CountFailure(b.failure_count) >= config.failure_threshold
             THEN [counted EXCEPT !.failure_count = CountFailure(@),
                                  !.opened_at = t, !.state = "open"]
             ELSE [counted EXCEPT !.failure_count = CountFailure(@)]
        ELSE counted

\* one event applied to the breaker b
ApplyEvent(b, ev) ==
    CASE ev.kind = "read" -> ReadOn(b, ev.time)
      [] ev.kind = "success" -> RecordSuccessOn(b, ev.time)
      [] ev.kind = "failure" -> RecordFailureOn(b, ev.time)

\* the events applied to the breaker b one at a time, in order
RECURSIVE Replay(_, _)
Replay(events, b) ==
    IF events = <<>> THEN b ELSE Replay(Tail(events), ApplyEvent(b, Head(events)))

\* a breaker just constructed, as a value
NewBreakerValue ==
    [state |-> "closed", stats |-> CircuitStats, failure_count |-> 0,
     success_count |-> 0, last_failure_time |-> NoTime, opened_at |-> NoTime]

Callers == 1..MaxCallers

\* no ainvoke call started
SharedInit ==
    /\ sh_pc = [c \in Callers |-> "idle"]
    /\ sh_attempt = [c \in Callers |-> 0]
    /\ sh_admitted = 0
    /\ sh_events = <<>>

\* caller c enters ainvoke: the breaker is asked, and the first attempt is
\* started or CircuitOpenError is raised
SharedAInvoke(c) ==
    /\ sh_pc[c] = "idle"
    /\ StateRead
    /\ cb_last' = "allow_request"
    /\ cb_ret' = Returned("bool", IF AllowRequest THEN "True" ELSE "False")
    /\ cb_opexc' = NoExc
    /\ sh_events' = Append(sh_events, [kind |-> "read", time |-> now])
    /\ IF AllowRequest
       THEN /\ sh_pc' = [sh_pc EXCEPT ![c] = "attempt"]
            /\ sh_attempt' = [sh_attempt EXCEPT ![c] = 1]
            /\ sh_admitted' = sh_admitted + 1
       ELSE /\ sh_pc' = [sh_pc EXCEPT ![c] = "rejected"]
            /\ UNCHANGED <<sh_attempt, sh_admitted>>
    /\ UNCHANGED cb_pending
    /\ UNCHANGED <<wfvars, llmvars, funvars, regvars, agvars, cxvars>>

\* the model returns to caller c: ainvoke returns the response
SharedModelReturns(c) ==
    /\ sh_pc[c] = "attempt"
    /\ sh_pc' = [sh_pc EXCEPT ![c] = "done"]
    /\ sh_events' = Append(sh_events, [kind |-> "success", time |-> now])
    /\ UNCHANGED <<sh_attempt, sh_admitted>>
    /\ UNCHANGED <<wfvars, cbvars, llmvars, funvars, regvars, agvars, cxvars>>

\* the model raises to caller c: ainvoke sleeps and tries again, or raises
\* once the attempts are used up
SharedModelRaises(c) ==
    /\ sh_pc[c] = "attempt"
    /\ IF ~StopAfterAttempt(sh_attempt[c])
       THEN /\ sh_pc' = [sh_pc EXCEPT ![c] = "sleep"]
            /\ UNCHANGED sh_events
       ELSE /\ sh_pc' = [sh_pc EXCEPT ![c] = "done"]
            /\ sh_events' = Append(sh_events, [kind |-> "failure", time |-> now])
    /\ UNCHANGED <<sh_attempt, sh_admitted>>
    /\ UNCHANGED <<wfvars, cbvars, llmvars, funvars, regvars, agvars, cxvars>>

\* the backoff sleep of caller c is over
SharedBackoffSleep(c) ==
    /\ sh_pc[c] = "sleep"
    /\ sh_pc' = [sh_pc EXCEPT ![c] = "attempt"]
    /\ sh_attempt' = [sh_attempt EXCEPT ![c] = @ + 1]
    /\ UNCHANGED <<sh_admitted, sh_events>>
    /\ UNCHANGED <<wfvars, cbvars, llmvars, funvars, regvars, agvars, cxvars>>

\* time passes while a caller has not finished
SharedTimePasses ==
    /\ \E c \in Callers : sh_pc[c] \notin {"done", "rejected"}
    /\ Tick

(***************************************************************************)
(* One agent stage: BaseAgent.execute, its retry around _run, and the      *)
(* model invocations _run makes                                            *)
(***************************************************************************)
\* the five agents of the workflow
AgentNames == {"researcher", "fact_checker", "synthesizer", "writer", "critic"}

\* no model invocation started yet
NoInvocation == [via |-> "none", breaker |-> "none"]

\* errors the model client raises in an agent stage
AgentModelErrors ==
    {[type |-> "ConnectionError", msg |-> <<"connection", " ", "reset">>],
     [type |-> "ValueError", msg |-> <<"bad", " ", "prompt">>]}

\* an agent constructed, its execute not yet called
AgentInit(names, tools) ==
    /\ ag_name \in names
    /\ ag_tools \in tools
    /\ ag_pc = "idle"
    /\ ag_attempt = 0
    /\ ag_inner = 0
    /\ ag_step = 0
    /\ ag_inv = NoInvocation
    /\ ag_invocations = 0
    /\ ag_all_retryable = TRUE
    /\ ag_open_at_entry = FALSE
    /\ ag_rejections = 0
    /\ ag_sleeps = 0
    /\ ag_exc = NoExc

\* Researcher and Writer take self.llm.llm and, when it has bind_tools, invoke
\* the tool-bound client; every other _run calls self.llm.ainvoke
BindsTools == ag_tools /\ ag_name \in {"researcher", "writer"}

\* a model invocation is started through via
Invoked(via) ==
    /\ ag_inv' = [via |-> via, breaker |-> StateValue]
    /\ ag_invocations' = ag_invocations + 1

\* the attempt att of _run has raised e: _execute_with_retry sleeps and tries
\* again, or stop_after_attempt(3) ends it with RetryError
RunRaised(e, att) ==
    /\ ag_attempt' = att
    /\ IF att < AgentMaxAttempts
       THEN /\ ag_pc' = "backoff"
            /\ UNCHANGED ag_exc
       ELSE /\ ag_pc' = "raised"
            /\ ag_exc' = ExhaustedError(e)

\* mutant: every _run goes through ainvoke of the wrapper
EnterRun_AlwaysWrapped(att) ==
    /\ StateRead
    /\ cb_last' = "allow_request"
    /\ cb_ret' = Returned("bool", IF AllowRequest THEN "True" ELSE "False")
    /\ cb_opexc' = NoExc
    /\ UNCHANGED cb_pending
    /\ IF AllowRequest
       THEN /\ ag_pc' = "invoking"
            /\ ag_attempt' = att
            /\ ag_inner' = 1
            /\ ag_step' = 1
            /\ Invoked("wrapper")
            /\ UNCHANGED <<ag_rejections, ag_exc>>
       ELSE /\ ag_rejections' = ag_rejections + 1
            /\ RunRaised(LLMCircuitOpenError, att)
            /\ UNCHANGED <<ag_inner, ag_step, ag_inv, ag_invocations>>

\* the attempt att of _run up to its first suspension: the tool-bound client
\* is invoked, or ainvoke of the wrapper asks the breaker and starts its first
\* attempt or raises CircuitOpenError
EnterRun(att) ==
    IF BindsTools
    THEN /\ ag_pc' = "direct"
         /\ ag_attempt' = att
         /\ ag_inner' = 0
         /\ ag_step' = 1
         /\ Invoked("direct")
         /\ UNCHANGED <<cbvars, ag_rejections, ag_exc>>
    ELSE /\ StateRead
         /\ cb_last' = "allow_request"
         /\ cb_ret' = Returned("bool", IF AllowRequest THEN "True" ELSE "False")
         /\ cb_opexc' = NoExc
         /\ UNCHANGED cb_pending
         /\ IF AllowRequest
            THEN /\ ag_pc' = "invoking"
                 /\ ag_attempt' = att
                 /\ ag_inner' = 1
                 /\ ag_step' = 1
                 /\ Invoked("wrapper")
                 /\ UNCHANGED <<ag_rejections, ag_exc>>
            ELSE /\ ag_rejections' = ag_rejections + 1
                 /\ RunRaised(LLMCircuitOpenError, att)
                 /\ UNCHANGED <<ag_inner, ag_step, ag_inv, ag_invocations>>

\* execute(input, context) with a valid input, up to its first suspension
AgentExecute ==
    /\ ag_pc = "idle"
    /\ ag_open_at_entry' = (StateValue = "open")
    /\ EnterRun(1)
    /\ UNCHANGED <<ag_name, ag_tools, ag_all_retryable, ag_sleeps>>
    /\ UNCHANGED <<wfvars, llmvars, funvars, regvars, shvars, cxvars>>

\* the model returns the response _run parses: execute returns
AgentModelReturns ==
    /\ ag_pc \in {"invoking", "direct"}
    /\ ag_pc' = "done"
    /\ ag_all_retryable' = FALSE
    /\ UNCHANGED <<ag_name, ag_tools, ag_attempt, ag_inner, ag_step, ag_inv,
                   ag_invocations, ag_open_at_entry, ag_rejections, ag_sleeps, ag_exc>>
    /\ UNCHANGED <<wfvars, cbvars, llmvars, funvars, regvars, shvars, cxvars>>

\* the model answers the Researcher's first invocation with tool calls: the
\* tool outputs are sent to the tool-bound client in a second invocation
ResearcherCallsTools ==
    /\ ag_pc = "direct"
    /\ ag_name = "researcher"
    /\ ag_step = 1
    /\ ag_step' = 2
    /\ Invoked("direct")
    /\ ag_all_retryable' = FALSE
    /\ UNCHANGED <<ag_name, ag_tools, ag_pc, ag_attempt, ag_inner,
                   ag_open_at_entry, ag_rejections, ag_sleeps, ag_exc>>
    /\ UNCHANGED <<wfvars, cbvars, llmvars, funvars, regvars, shvars, cxvars>>

\* the model invocation raises e: inside ainvoke the wrapper's retry sleeps or
\* gives up and re-raises; from the tool-bound client e leaves _run at once
AgentModelRaises(e) ==
    /\ ag_pc \in {"invoking", "direct"}
    /\ ag_all_retryable' = (ag_all_retryable /\ IsRetryableError(e))
    /\ IF ag_pc = "invoking" /\ RetryIf(e) /\ ~StopAfterAttempt(ag_inner)
       THEN /\ ag_pc' = "sleep"
            /\ UNCHANGED <<ag_attempt, ag_exc>>
       ELSE RunRaised(IF ag_pc = "invoking" THEN Reraise(e) ELSE e, ag_attempt)
    /\ UNCHANGED <<ag_name, ag_tools, ag_inner, ag_step, ag_inv, ag_invocations,
                   ag_open_at_entry, ag_rejections, ag_sleeps>>
    /\ UNCHANGED <<wfvars, cbvars, llmvars, funvars, regvars, shvars, cxvars>>

\* the wrapper's backoff sleep is over: the model is invoked again
AgentInnerBackoff ==
    /\ ag_pc = "sleep"
    /\ ag_pc' = "invoking"
    /\ ag_inner' = ag_inner + 1
    /\ Invoked("wrapper")
    /\ UNCHANGED <<ag_name, ag_tools, ag_attempt, ag_step, ag_all_retryable,
                   ag_open_at_entry, ag_rejections, ag_sleeps, ag_exc>>
    /\ UNCHANGED <<wfvars, cbvars, llmvars, funvars, regvars, shvars, cxvars>>

\* the backoff sleep of _execute_with_retry is over: _run is entered again
AgentOuterBackoff ==
    /\ ag_pc = "backoff"
    /\ ag_sleeps' = ag_sleeps + 1
    /\ EnterRun(ag_attempt + 1)
    /\ UNCHANGED <<ag_name, ag_tools, ag_all_retryable, ag_open_at_entry>>
    /\ UNCHANGED <<wfvars, llmvars, funvars, regvars, shvars, cxvars>>

\* time passes before execute is called and while a backoff sleep lasts
AgentTimePasses ==
    /\ ag_pc \in {"idle", "sleep", "backoff"}
    /\ Tick

\* another holder of the breaker records a failure before execute is called
AgentBreakerFails ==
    /\ ag_pc = "idle"
    /\ RecordFailure

(***************************************************************************)
(* Concurrent executions on one ResearchWorkflow: the five agents are      *)
(* created once in __init__ and used by every execute                      *)
(***************************************************************************)
Executions == 1..MaxExecutions

\* correlation ids the callers of concurrent executions supply
ExecutionIds == {Some(<<"run-1">>), Some(<<"run-2">>)}

\* the record _log hands to the logger
LogRecord(e, agent, msg, cid) ==
    [execution |-> e, agent |-> agent, msg |-> msg, correlation_id |-> cid]

\* the event an agent returns to execution e
EventOf(e, agent) == [by |-> agent, execution |-> e]

\* the workflow constructed, no execute called
ConcurrentInit ==
    /\ cx_pc = [e \in Executions |-> "idle"]
    /\ cx_iteration = [e \in Executions |-> 0]
    /\ cx_context = [e \in Executions |-> NULL]
    /\ cx_result = [e \in Executions |-> WorkflowResult]
    /\ cx_correlation_id = [a \in AgentNames |-> None]
    /\ cx_logs = <<>>

\* the suspension point that follows p in execute, the review loop being in
\* iteration it and the Critic's review accepted or not; "done" when the run
\* returns
StageAfter(p, it, accepted) ==
    CASE p = "research" -> "fact_check"
      [] p = "fact_check" -> "synthesis"
      [] p = "synthesis" -> "writing"
      [] p = "writing" -> IF 0 < max_iterations THEN "review" ELSE "done"
      [] p = "review" -> IF accepted THEN "done" ELSE "resynthesis"
      [] p = "resynthesis" -> "rewriting"
      [] p = "rewriting" -> IF it + 1 < max_iterations THEN "review" ELSE "done"

\* the result of execution e after the agent suspended in at p has returned
\* and the run moves on to next
Stored(e, p, next) ==
    LET ev == EventOf(e, AgentOf(p))
        res == cx_result[e]
        filled == CASE p = "research" -> [res EXCEPT !.research = ev]
                    [] p = "fact_check" -> [res EXCEPT !.fact_check = ev]
                    [] p \in {"synthesis", "resynthesis"} -> [res EXCEPT !.synthesis = ev]
                    [] p \in {"writing", "rewriting"} -> [res EXCEPT !.report = ev]
                    [] p = "review" ->
                         [res EXCEPT !.review = ev, !.iterations = cx_iteration[e] + 1]
    IN  [filled EXCEPT !.status =
             CASE next = "done" -> "completed"
               [] p \in {"review", "resynthesis", "rewriting"} -> "review"
               [] OTHER -> next]

\* mutant: _log takes the correlation id from the context of the call
LoggedId_FromContext(ids, ctx, agent) == ctx.correlation_id

\* the correlation id _log attaches in a call made with the context ctx, the
\* agents' _correlation_id fields being ids: the field of the agent object
LoggedId(ids, ctx, agent) == ids[agent]

\* execution e calls execute(topic, correlation_id) with a valid topic: its
\* context and result are created and the Researcher's execute is entered
ConcurrentExecute(e, correlation_id) ==
    /\ cx_pc[e] = "idle"
    /\ LET ctx == AgentContextCreate(correlation_id)
       IN  /\ cx_context' = [cx_context EXCEPT ![e] = ctx]
           /\ cx_correlation_id' =
                  [cx_correlation_id EXCEPT !["researcher"] = ctx.correlation_id]
    /\ cx_logs' = <<LogRecord(e, "researcher", "Executing",
                              LoggedId(cx_correlation_id', cx_context'[e], "researcher"))>>
    /\ cx_pc' = [cx_pc EXCEPT ![e] = "research"]
    /\ UNCHANGED <<cx_iteration, cx_result>>
    /\ UNCHANGED <<wfvars, cbvars, llmvars, funvars, regvars, shvars, agvars>>

\* the agent execution e is suspended in returns: it logs its completion, the
\* workflow stores the event and enters the next agent's execute, or returns
ConcurrentAgentReturns(e, accepted) ==
    /\ cx_pc[e] \notin {"idle", "done"}
    /\ LET p == cx_pc[e]
           next == StageAfter(p, cx_iteration[e], accepted)
           completed == LogRecord(e, AgentOf(p), "completed",
                                  LoggedId(cx_correlation_id, cx_context[e], AgentOf(p)))
       IN  /\ cx_pc' = [cx_pc EXCEPT ![e] = next]
           /\ cx_result' = [cx_result EXCEPT ![e] = Stored(e, p, next)]
           /\ cx_iteration' =
                  [cx_iteration EXCEPT ![e] = IF p = "rewriting" /\ next = "review"
                                              THEN @ + 1 ELSE @]
           /\ IF next = "done"
              THEN /\ cx_logs' = <<completed>>
                   /\ UNCHANGED cx_correlation_id
              ELSE /\ cx_correlation_id' =
                          [cx_correlation_id EXCEPT ![AgentOf(next)] =
                                                        cx_context[e].correlation_id]
                   /\ cx_logs' = <<completed,
                                   LogRecord(e, AgentOf(next), "Executing",
                                             LoggedId(cx_correlation_id', cx_context[e],
                                                      AgentOf(next)))>>
    /\ UNCHANGED cx_context
    /\ UNCHANGED <<wfvars, cbvars, llmvars, funvars, regvars, shvars, agvars>>

\* the agent execution e is suspended in raises: it logs the failure and the
\* except clause of execute returns the result as FAILED
ConcurrentAgentRaises(e, exc) ==
    /\ cx_pc[e] \notin {"idle", "done"}
    /\ cx_logs' = <<LogRecord(e, AgentOf(cx_pc[e]), "failed",
                              LoggedId(cx_correlation_id, cx_context[e],
                                       AgentOf(cx_pc[e])))>>
    /\ cx_pc' = [cx_pc EXCEPT ![e] = "done"]
    /\ cx_result' = [cx_result EXCEPT ![e] = Failed(@, ExhaustedError(exc))]
    /\ UNCHANGED <<cx_iteration, cx_context, cx_correlation_id>>
    /\ UNCHANGED <<wfvars, cbvars, llmvars, funvars, regvars, shvars, agvars>>

(***************************************************************************)
(* ResearchWorkflow                                                        *)
(***************************************************************************)
\* ResearchWorkflow(max_iterations, auto_approve_threshold) constructed,
\* no run started
WorkflowInit(iters, thresholds) ==
    /\ max_iterations \in iters
    /\ auto_approve_threshold \in thresholds
    /\ mode = "idle"
    /\ pc = "idle"
    /\ iteration = 0
    /\ attempt = 0
    /\ result = WorkflowResult
    /\ calls = <<>>
    /\ reviews = <<>>
    /\ failedCall = "none"
    /\ raisedExc = NoExc
    /\ nextId = 1
    /\ context = NULL
    /\ inputs = <<>>
    /\ statuses = <<>>

Init ==
    /\ WorkflowInit(0..MaxIterations, 0..MaxScore)
    /\ BreakerInit({LLMCircuitConfig})
    /\ WrapperInit({RETRY_CONFIG_DEFAULT})
    /\ FunInit
    /\ RegistryInit
    /\ SharedInit
    /\ AgentInit({"researcher"}, {FALSE})
    /\ ConcurrentInit

\* execute(topic) up to its first suspension
Execute(topic, correlation_id) ==
    /\ pc = "idle"
    /\ mode' = "execute"
    /\ context' = AgentContextCreate(correlation_id)
    /\ Await("research", topic, WorkflowResult)
    /\ Assigned(WorkflowResult)
    /\ UNCHANGED <<cbvars, llmvars, funvars, regvars, shvars, agvars, cxvars>>
    /\ UNCHANGED <<max_iterations, auto_approve_threshold, iteration, reviews, nextId>>

\* execute_sequential(topic) up to its first suspension
ExecuteSequential(topic, correlation_id) ==
    /\ pc = "idle"
    /\ mode' = "execute_sequential"
    /\ context' = AgentContextCreate(correlation_id)
    /\ Await("research", topic, WorkflowResult)
    /\ Assigned(WorkflowResult)
    /\ UNCHANGED <<cbvars, llmvars, funvars, regvars, shvars, agvars, cxvars>>
    /\ UNCHANGED <<max_iterations, auto_approve_threshold, iteration, reviews, nextId>>

\* Researcher returns; the workflow stores the event and calls the FactChecker
ResearcherReturns ==
    /\ pc = "research"
    /\ LET ev == ResearchCompleted(nextId)
           res == IF mode = "execute"
                  THEN [result EXCEPT !.research = ev, !.status = "fact_check"]
                  ELSE [result EXCEPT !.research = ev]
       IN  /\ Await("fact_check", ev, res)
           /\ Assigned(res)
    /\ nextId' = nextId + 1
    /\ UNCHANGED <<cbvars, llmvars, funvars, regvars, shvars, agvars, cxvars>>
    /\ UNCHANGED <<max_iterations, auto_approve_threshold, context, mode, iteration, reviews>>

\* FactChecker returns; the workflow stores the event and calls the Synthesizer
FactCheckerReturns ==
    /\ pc = "fact_check"
    /\ LET ev == FactCheckCompleted(nextId, result.research)
           res == IF mode = "execute"
                  THEN [result EXCEPT !.fact_check = ev, !.status = "synthesis"]
                  ELSE [result EXCEPT !.fact_check = ev]
       IN  /\ Await("synthesis", [research |-> res.research, fact_check |-> ev], res)
           /\ Assigned(res)
    /\ nextId' = nextId + 1
    /\ UNCHANGED <<cbvars, llmvars, funvars, regvars, shvars, agvars, cxvars>>
    /\ UNCHANGED <<max_iterations, auto_approve_threshold, context, mode, iteration, reviews>>

\* mutant: the pass inside the review loop sets the status to WRITING again
SynthesizerReturns_ResetsStatus ==
    /\ pc \in {"synthesis", "resynthesis"}
    /\ LET ev == SynthesisCompleted(nextId, result.research, result.fact_check)
           res == IF mode = "execute"
                  THEN [result EXCEPT !.synthesis = ev, !.status = "writing"]
                  ELSE [result EXCEPT !.synthesis = ev]
       IN  /\ Await(IF pc = "synthesis" THEN "writing" ELSE "rewriting",
                     [synthesis |-> ev, format |-> "markdown"], res)
           /\ Assigned(res)
    /\ nextId' = nextId + 1
    /\ UNCHANGED <<cbvars, llmvars, funvars, regvars, shvars, agvars, cxvars>>
    /\ UNCHANGED <<max_iterations, auto_approve_threshold, context, mode, iteration, reviews>>

\* Synthesizer returns (first pass or inside the review loop); Writer is called
SynthesizerReturns ==
    /\ pc \in {"synthesis", "resynthesis"}
    /\ LET ev == SynthesisCompleted(nextId, result.research, result.fact_check)
           res == IF mode = "execute" /\ pc = "synthesis"
                  THEN [result EXCEPT !.synthesis = ev, !.status = "writing"]
                  ELSE [result EXCEPT !.synthesis = ev]
       IN  /\ Await(IF pc = "synthesis" THEN "writing" ELSE "rewriting",
                     [synthesis |-> ev, format |-> "markdown"], res)
           /\ Assigned(res)
    /\ nextId' = nextId + 1
    /\ UNCHANGED <<cbvars, llmvars, funvars, regvars, shvars, agvars, cxvars>>
    /\ UNCHANGED <<max_iterations, auto_approve_threshold, context, mode, iteration, reviews>>

\* mutant: range(self.max_iterations + 1)
LoopHead_OffByOne(it, res) ==
    IF it <= max_iterations
    THEN /\ iteration' = it
         /\ Await("review", res.report, res)
    ELSE /\ iteration' = iteration
         /\ Return([res EXCEPT !.status = "completed"])

\* mutant: the loop body runs once before max_iterations is looked at
LoopHead_RunsOnce(it, res) ==
    IF it < max_iterations \/ it = 0
    THEN /\ iteration' = it
         /\ Await("review", res.report, res)
    ELSE /\ iteration' = iteration
         /\ Return([res EXCEPT !.status = "completed"])

\* the head of "for iteration in range(self.max_iterations)" reached with the
\* loop variable about to take the value it, the result being res
LoopHead(it, res) ==
    IF it < max_iterations
    THEN /\ iteration' = it
         /\ Await("review", res.report, res)
    ELSE /\ iteration' = iteration
         /\ Return([res EXCEPT !.status = "completed"])

\* mutant: execute_sequential enters the review loop after the Writer
WriterReturns_SequentialReviews ==
    /\ pc \in {"writing", "rewriting"}
    /\ LET ev == ReportWritten(nextId, result.synthesis)
       IN  CASE pc = "writing" ->
                  /\ LoopHead(0, [result EXCEPT !.report = ev, !.status = "review"])
                  /\ Assigned([result EXCEPT !.status = "review"])
             [] pc = "rewriting" ->
                  /\ LoopHead(iteration + 1, [result EXCEPT !.report = ev])
                  /\ Assigned(result)
    /\ nextId' = nextId + 1
    /\ UNCHANGED <<cbvars, llmvars, funvars, regvars, shvars, agvars, cxvars>>
    /\ UNCHANGED <<max_iterations, auto_approve_threshold, context, mode, reviews>>

\* Writer returns: first pass of execute enters the review loop, the pass
\* inside the loop goes to the next iteration, execute_sequential completes
WriterReturns ==
    /\ pc \in {"writing", "rewriting"}
    /\ LET ev == ReportWritten(nextId, result.synthesis)
       IN  CASE mode = "execute_sequential" ->
                  /\ Return([result EXCEPT !.report = ev, !.status = "completed"])
                  /\ iteration' = iteration
                  /\ Assigned(result)
             [] mode = "execute" /\ pc = "writing" ->
                  /\ LoopHead(0, [result EXCEPT !.report = ev, !.status = "review"])
                  /\ Assigned([result EXCEPT !.status = "review"])
             [] mode = "execute" /\ pc = "rewriting" ->
                  /\ LoopHead(iteration + 1, [result EXCEPT !.report = ev])
                  /\ Assigned(result)
    /\ nextId' = nextId + 1
    /\ UNCHANGED <<cbvars, llmvars, funvars, regvars, shvars, agvars, cxvars>>
    /\ UNCHANGED <<max_iterations, auto_approve_threshold, context, mode, reviews>>

\* mutant: the score threshold is not consulted
ReviewAccepted_ApprovalOnly(rev) == rev.approved

\* the two break conditions of the review loop: explicit approval is tested
\* first, then the score against auto_approve_threshold
ReviewAccepted(rev) ==
    IF rev.approved
    THEN TRUE
    ELSE IF rev.score >= auto_approve_threshold
    THEN TRUE
    ELSE FALSE

\* Critic returns a review: approval, then the score threshold, end the loop;
\* otherwise Synthesizer is called again
CriticReturns(approved, score) ==
    /\ pc = "review"
    /\ LET ev == ReportReviewed(nextId, result.report, approved, score)
           res == [result EXCEPT !.review = ev, !.iterations = iteration + 1]
       IN  /\ reviews' = Append(reviews, ev)
           /\ IF ReviewAccepted(res.review)
              THEN Return([res EXCEPT !.status = "completed"])
              ELSE Await("resynthesis",
                         [research |-> res.research, fact_check |-> res.fact_check],
                         res)
           /\ Assigned(res)
    /\ nextId' = nextId + 1
    /\ UNCHANGED <<cbvars, llmvars, funvars, regvars, shvars, agvars, cxvars>>
    /\ UNCHANGED <<max_iterations, auto_approve_threshold, context, mode, iteration>>

\* The current _run attempt raises e: _execute_with_retry tries again until
\* stop_after_attempt; then the error reaches the except clause of the workflow
RunRaises(e) ==
    /\ pc \notin {"idle", "done", "raised"}
    /\ raisedExc' = e
    /\ IF attempt < AgentMaxAttempts
       THEN /\ attempt' = attempt + 1
            /\ UNCHANGED <<pc, result, failedCall>>
       ELSE /\ Raise(result, ExhaustedError(e))
            /\ failedCall' = AgentOf(pc)
            /\ attempt' = attempt
    /\ Assigned(result)
    /\ UNCHANGED <<cbvars, llmvars, funvars, regvars, shvars, agvars, cxvars>>
    /\ UNCHANGED <<max_iterations, auto_approve_threshold, context, mode, iteration,
                   calls, inputs, reviews, nextId>>

Next ==
    \/ \E topic \in Topics, cid \in CorrelationIds : Execute(topic, cid)
    \/ \E topic \in Topics, cid \in CorrelationIds : ExecuteSequential(topic, cid)
    \/ ResearcherReturns
    \/ FactCheckerReturns
    \/ SynthesizerReturns
    \/ WriterReturns
    \/ \E approved \in BOOLEAN, score \in 0..MaxScore : CriticReturns(approved, score)
    \/ \E e \in Exceptions : RunRaises(e)

Spec == Init /\ [][Next]_vars

\* every agent call eventually returns or raises
LiveSpec == Spec /\ WF_vars(Next)

(***************************************************************************)
(* Properties of the workflow.                                             *)
(***************************************************************************)
Done == pc = "done"

Slots == <<"research", "fact_check", "synthesis", "report", "review">>

\* position of an agent's stage in the pipeline
StageIndex(agent) ==
    CASE agent = "researcher" -> 1
      [] agent = "fact_checker" -> 2
      [] agent = "synthesizer" -> 3
      [] agent = "writer" -> 4
      [] agent = "critic" -> 5

\* number of calls made to an agent so far
CallCount(agent) == Cardinality({i \in 1..Len(calls) : calls[i] = agent})

Rejected(rev) == ~rev.approved /\ rev.score < auto_approve_threshold

AllRejected == \A k \in 1..Len(reviews) : Rejected(reviews[k])

\* C1 as stated: when execute returns FAILED, error is set and a slot is
\* non-null exactly when its stage precedes the stage whose agent call raised.
C1_Original ==
    (Done /\ mode = "execute" /\ result.status = "failed") =>
        /\ result.error # None
        /\ \A i \in 1..5 :
               (result[Slots[i]] # NULL) <=> (i < StageIndex(failedCall))

\* C1 amended: when execute returns FAILED, error is set; if the raising call
\* came before the first review was returned, the non-null slots are exactly
\* those of the stages preceding the failing stage; if it came after (inside
\* the review loop), all five slots are non-null.
C1_PartialResults ==
    (Done /\ mode = "execute" /\ result.status = "failed") =>
        /\ result.error # None
        /\ IF reviews = <<>>
           THEN \A i \in 1..5 :
                    (result[Slots[i]] # NULL) <=> (i < StageIndex(failedCall))
           ELSE \A i \in 1..5 : result[Slots[i]] # NULL

\* a Synthesizer failure on the first pass: research and fact_check kept
C1_Witness ==
    /\ Done /\ mode = "execute" /\ result.status = "failed"
    /\ failedCall = "synthesizer" /\ reviews = <<>>
    /\ result.research # NULL /\ result.fact_check # NULL
    /\ result.synthesis = NULL

\* C2: a COMPLETED result has research, fact_check, synthesis and report set
\* and no error; execute sets review iff max_iterations >= 1, and
\* execute_sequential never sets it.
C2_CompletedSlots ==
    (Done /\ result.status = "completed") =>
        /\ \A i \in 1..4 : result[Slots[i]] # NULL
        /\ result.error = None
        /\ mode = "execute" => (result.review # NULL <=> max_iterations >= 1)
        /\ mode = "execute_sequential" => result.review = NULL

C2_Witness ==
    /\ Done /\ result.status = "completed" /\ mode = "execute"
    /\ max_iterations >= 1 /\ result.review # NULL

\* C3: the review loop ends at the first review that is approved or scores at
\* least the threshold: that review is the last one, the run has returned
\* COMPLETED with iterations equal to its index and with it in the review
\* slot, and no agent was called after that Critic call.
C3_StopsAtFirstAccepted ==
    \A k \in 1..Len(reviews) :
        (reviews[k].approved \/ reviews[k].score >= auto_approve_threshold) =>
            /\ k = Len(reviews)
            /\ Done /\ result.status = "completed"
            /\ result.iterations = k
            /\ result.review = reviews[k]
            /\ calls[Len(calls)] = "critic"
            /\ CallCount("critic") = k

\* the threshold alone stops the loop, at the second review
C3_Witness ==
    /\ Done /\ Len(reviews) = 2
    /\ ~reviews[2].approved /\ reviews[2].score >= auto_approve_threshold
    /\ result.review = reviews[2] /\ result.iterations = 2

\* approval alone stops the loop, with a score below the threshold
C3_ApprovalAlone ==
    /\ Done /\ Len(reviews) >= 1
    /\ reviews[Len(reviews)].approved
    /\ reviews[Len(reviews)].score < auto_approve_threshold

\* C4: the Critic is called at most max_iterations times and iterations never
\* exceeds max_iterations; a run in which every review is rejected and no
\* agent call raises returns COMPLETED with iterations = max_iterations and
\* the last, unapproved review in the review slot.
C4_HardCap ==
    /\ CallCount("critic") <= max_iterations
    /\ result.iterations <= max_iterations
    /\ (Done /\ mode = "execute" /\ failedCall = "none" /\ AllRejected) =>
           /\ result.status = "completed"
           /\ result.iterations = max_iterations
           /\ max_iterations >= 1 =>
                  /\ result.review = reviews[Len(reviews)]
                  /\ ~result.review.approved

C4_Witness ==
    /\ Done /\ mode = "execute" /\ max_iterations = 2 /\ AllRejected
    /\ result.status = "completed" /\ result.iterations = 2
    /\ ~result.review.approved

\* C5 as stated: when the loop ends by exhausting max_iterations, no agent is
\* called after the last Critic call, so Synthesizer and Writer have been
\* called as often as the Critic.
C5_NoRerunAfterLastReview ==
    (Done /\ mode = "execute" /\ result.status = "completed"
          /\ max_iterations >= 1 /\ AllRejected) =>
        /\ calls[Len(calls)] = "critic"
        /\ CallCount("synthesizer") = CallCount("critic")
        /\ CallCount("writer") = CallCount("critic")

\* C6: with max_iterations = 0 execute never calls the Critic, and when the
\* four other agents succeed it returns COMPLETED, iterations 0, review None.
C6_ZeroIterations ==
    (mode = "execute" /\ max_iterations = 0) =>
        /\ CallCount("critic") = 0
        /\ (Done /\ failedCall = "none") =>
               /\ result.status = "completed"
               /\ result.iterations = 0
               /\ result.review = NULL

C6_Witness ==
    /\ Done /\ mode = "execute" /\ max_iterations = 0
    /\ result.status = "completed" /\ CallCount("writer") = 1

\* C7: every run of execute or execute_sequential returns, whatever the
\* agents do, and what it returns has status COMPLETED or FAILED; no
\* exception leaves the coroutine.
C7_AlwaysReturnsResult ==
    /\ <>(pc = "done")
    /\ [](pc # "raised")
    /\ [](pc = "done" => result.status \in {"completed", "failed"})

\* a run that failed inside the review loop and still returned
C7_Witness ==
    /\ Done /\ result.status = "failed" /\ reviews # <<>>
    /\ failedCall \in {"synthesizer", "writer", "critic"}

\* C8 as stated: when the failure comes from an exception E raised by the
\* agent's _run, the error of the FAILED result contains E's message.
C8_ErrorIsOwnMessage ==
    (Done /\ result.status = "failed" /\ raisedExc # NoExc) =>
        Contains(result.error[1], raisedExc.msg)

\* C9: execute_sequential calls Researcher, FactChecker, Synthesizer, Writer
\* once each in that order (as far as it gets), never the Critic; review is
\* None and iterations is 0 in every state, whatever max_iterations is.
C9_SequentialSinglePass ==
    mode = "execute_sequential" =>
        /\ Len(calls) <= 4
        /\ calls = SubSeq(<<"researcher", "fact_checker", "synthesizer", "writer">>,
                          1, Len(calls))
        /\ result.review = NULL
        /\ result.iterations = 0
        /\ (Done /\ result.status = "completed") => Len(calls) = 4

C9_Witness ==
    /\ Done /\ mode = "execute_sequential" /\ result.status = "completed"
    /\ max_iterations >= 1 /\ Len(calls) = 4 /\ result.review = NULL

\* a breaker with any explored configuration, beside a workflow not run
BreakerSpecInit ==
    /\ WorkflowInit({0}, {0})
    /\ BreakerInit(Configs)
    /\ WrapperInit({RETRY_CONFIG_DEFAULT})
    /\ FunInit
    /\ RegistryInit
    /\ SharedInit
    /\ AgentInit({"researcher"}, {FALSE})
    /\ ConcurrentInit

BreakerNext ==
    \/ ReadState
    \/ RecordSuccess
    \/ RecordFailure
    \/ CallBegin
    \/ CallReturns
    \/ CallTimesOut
    \/ \E e \in OperationErrors : CallRaises(e)
    \/ Tick

BreakerSpec == BreakerSpecInit /\ [][BreakerNext]_vars

(***************************************************************************)
(* Properties of the breaker.                                              *)
(***************************************************************************)
\* C10 as stated: a CLOSED breaker opens exactly at the failure_threshold-th
\* consecutive failure: a failure that is an earlier one of its run leaves it
\* CLOSED, and the failure_threshold-th opens it and records the open time.
C10_OpensAtThresholdFailure ==
    [][(cb_state = "closed" /\ cb_last' = "record_failure") =>
           IF cb_run' < config.failure_threshold
           THEN cb_state' = "closed"
           ELSE cb_state' = "open" /\ cb_opened_at' = now']_vars

\* the step records a success on the breaker
SuccessStep == cb_last' \in {"record_success", "call_returned"}

\* the step records a failure on the breaker
FailureStep == cb_last' \in {"record_failure", "call_timeout", "call_raised"}

\* the step evaluates the state property
ReadStep == cb_last' \in {"state", "call_admitted", "call_rejected"}

\* the step enters CircuitBreaker.call
CallStep == cb_last' \in {"call_admitted", "call_rejected"}

\* the breaker is OPEN and has been for at most cooldown_seconds
WithinCooldown ==
    cb_state = "open" /\ now <= cb_opened_at + config.cooldown_seconds

\* the step leaves the breaker object as it is
BreakerUnchanged ==
    UNCHANGED <<cb_state, cb_stats, cb_failure_count, cb_success_count,
                cb_last_failure_time, cb_opened_at, notified>>

\* C11 as stated: a success recorded while CLOSED sets the consecutive-failure
\* counter to zero, and a CLOSED breaker is left only by a step that completes
\* a run of failure_threshold failures uninterrupted by a success.
C11_SuccessResetsFailureCount ==
    [][/\ (cb_state = "closed" /\ SuccessStep) => cb_failure_count' = 0
       /\ (cb_state = "closed" /\ cb_state' # "closed") =>
              cb_run' >= config.failure_threshold]_vars

\* C12: CircuitBreaker.call entered while the breaker is OPEN and the cooldown
\* has not elapsed raises CircuitOpenError, starts no operation and leaves the
\* state, the statistics, the counters and the open timestamp unchanged.
C12_OpenRejectsCall ==
    [][(CallStep /\ WithinCooldown) =>
           /\ cb_last' = "call_rejected"
           /\ cb_ret' = CircuitOpenError
           /\ cb_pending' = cb_pending
           /\ BreakerUnchanged]_vars

C12_Witness ==
    /\ cb_last = "call_rejected"
    /\ cb_ret = CircuitOpenError
    /\ cb_state = "open"
    /\ cb_opened_at < now
    /\ now <= cb_opened_at + config.cooldown_seconds
    /\ cb_stats.failed_calls >= config.failure_threshold

C14_ClosesAtSuccessThreshold ==
    [][(cb_state = "half_open" /\ SuccessStep) =>
           IF cb_episode' >= config.success_threshold
           THEN /\ cb_state' = "closed"
                /\ cb_failure_count' = 0
                /\ cb_success_count' = 0
           ELSE cb_state' = "half_open"]_vars

\* C40 as stated: the breaker goes from HALF_OPEN to CLOSED only when at least
\* success_threshold successes were recorded since it most recently entered
\* HALF_OPEN; successes of an earlier HALF_OPEN episode do not count.
C40_ClosesOnEpisodeSuccesses ==
    [][(cb_state = "half_open" /\ cb_state' = "closed") =>
           cb_episode' >= config.success_threshold]_vars

\* C15: a failure recorded while HALF_OPEN opens the breaker at once, whatever
\* successes preceded it, and sets the open timestamp to the time of that
\* failure; until more than cooldown_seconds have passed since then, a state
\* read leaves the breaker OPEN and call is rejected.
C15_ProbeFailureReopens ==
    [][/\ (cb_state = "half_open" /\ FailureStep) =>
              /\ cb_state' = "open"
              /\ cb_opened_at' = now
              /\ notified' = Append(notified, <<"half_open", "open">>)
       /\ (ReadStep /\ WithinCooldown) =>
              /\ cb_state' = "open"
              /\ cb_last' # "call_admitted"
              /\ cb_opened_at' = cb_opened_at]_vars

C15_Witness ==
    /\ cb_state = "open"
    /\ Len(notified) >= 3
    /\ notified[Len(notified)] = <<"half_open", "open">>
    /\ cb_stats.successful_calls > 0
    /\ cb_opened_at = cb_last_failure_time
    /\ cb_last \in {"state", "call_rejected"}
    /\ now > 0
    /\ cb_opened_at + config.cooldown_seconds >= now

\* C16 as stated: an admitted call that ends records exactly one outcome: a
\* timeout records one failure and raises CircuitTimeoutError, an operation
\* that raises records one failure and its own exception is raised, an
\* operation that returns records one success and its result is returned.
C16_CallRecordsOutcome ==
    [][/\ cb_last' = "call_timeout" =>
              /\ cb_stats'.failed_calls = cb_stats.failed_calls + 1
              /\ cb_stats'.total_calls = cb_stats.total_calls + 1
              /\ cb_stats'.successful_calls = cb_stats.successful_calls
              /\ cb_ret' = CircuitTimeoutError
       /\ cb_last' = "call_raised" =>
              /\ cb_stats'.failed_calls = cb_stats.failed_calls + 1
              /\ cb_stats'.total_calls = cb_stats.total_calls + 1
              /\ cb_stats'.successful_calls = cb_stats.successful_calls
              /\ cb_ret' = cb_opexc'
       /\ cb_last' = "call_returned" =>
              /\ cb_stats'.successful_calls = cb_stats.successful_calls + 1
              /\ cb_stats'.total_calls = cb_stats.total_calls + 1
              /\ cb_stats'.failed_calls = cb_stats.failed_calls
              /\ cb_ret' = Returned("result", "success")]_vars

(***************************************************************************)
(* The wrapper on its own: one ainvoke on a breaker shared through the     *)
(* registry.                                                               *)
(***************************************************************************)
\* breaker configurations explored under the wrapper
LLMConfigs ==
    {c \in Configs : c.failure_threshold = 1 /\ c.success_threshold = 1}

LLMSpecInit ==
    /\ WorkflowInit({0}, {0})
    /\ BreakerInit(LLMConfigs)
    /\ WrapperInit(RetryConfigs)
    /\ FunInit
    /\ RegistryInit
    /\ SharedInit
    /\ AgentInit({"researcher"}, {FALSE})
    /\ ConcurrentInit

LLMNext ==
    \/ AInvoke
    \/ ModelReturns
    \/ \E e \in ModelErrors : ModelRaises(e)
    \/ BackoffSleep
    \/ SharedBreakerFails
    \/ SharedBreakerSucceeds
    \/ TimePasses

LLMSpec == LLMSpecInit /\ [][LLMNext]_vars

(***************************************************************************)
(* Properties of the wrapper.                                              *)
(***************************************************************************)
\* ainvoke was admitted by the breaker and has ended
AdmittedDone == llm_pc = "done" /\ llm_outcomes # <<>>

\* the outcome of the last model invocation
LastOutcome == llm_outcomes[Len(llm_outcomes)]

\* C17 as stated: when an admitted ainvoke has ended, the breaker has recorded
\* exactly one outcome for it: one success if the last attempt returned, one
\* failure if it raised.
C17_OutcomeRecordedOnce ==
    AdmittedDone =>
        /\ cb_stats.total_calls = llm_before.view.stats.total_calls + 1
        /\ IF LastOutcome = ModelResponse
           THEN cb_stats.successful_calls =
                    llm_before.view.stats.successful_calls + 1
           ELSE cb_stats.failed_calls = llm_before.view.stats.failed_calls + 1

\* C18: an ainvoke entered while the breaker reads OPEN has ended with
\* CircuitOpenError, without a model invocation, an attempt or a sleep, and
\* with the breaker's state, statistics and counters as they were.
C18_OpenRejectsAInvoke ==
    (llm_pc # "idle" /\ llm_before.state = "open") =>
        /\ llm_pc = "done"
        /\ llm_ret = LLMCircuitOpenError
        /\ llm_outcomes = <<>>
        /\ llm_attempt = 0
        /\ llm_slept = 0
        /\ cb_state = "open"
        /\ BreakerView = llm_before.view

C18_Witness ==
    /\ llm_pc = "done"
    /\ llm_before.state = "open"
    /\ llm_ret = LLMCircuitOpenError
    /\ cb_stats.failed_calls > 0
    /\ cb_opened_at < now

\* C19 as stated: a model invocation that raises an error is_retryable_error
\* classifies as non-retryable is the last one of its ainvoke: no sleep and no
\* invocation follows it, and ainvoke raises that error.
C19_NonRetryableNotRetried ==
    \A i \in 1..Len(llm_outcomes) :
        (llm_outcomes[i] \in ModelErrors /\ ~IsRetryableError(llm_outcomes[i])) =>
            /\ i = Len(llm_outcomes)
            /\ llm_slept = i - 1
            /\ llm_pc = "done"
            /\ llm_ret = llm_outcomes[i]

\* C20: the model is never invoked more than max_attempts times; an ainvoke
\* that ended after only retryable errors invoked the model exactly
\* max_attempts times, slept between the attempts, and raised the last attempt's
\* own exception; an ainvoke whose attempt k returned invoked the model
\* exactly k times and returned that result.
C20_RetriesUpToMaxAttempts ==
    /\ Len(llm_outcomes) <= retry_config.max_attempts
    /\ \A i \in 1..(Len(llm_outcomes) - 1) : llm_outcomes[i] \in ModelErrors
    /\ (AdmittedDone /\ \A i \in 1..Len(llm_outcomes) :
                            /\ llm_outcomes[i] \in ModelErrors
                            /\ IsRetryableError(llm_outcomes[i])) =>
           /\ Len(llm_outcomes) = retry_config.max_attempts
           /\ llm_slept = retry_config.max_attempts - 1
           /\ llm_ret = LastOutcome
    /\ (AdmittedDone /\ LastOutcome = ModelResponse) =>
           /\ llm_attempt = Len(llm_outcomes)
           /\ llm_ret = ModelResponse

C20_Witness ==
    /\ AdmittedDone
    /\ retry_config.max_attempts >= 2
    /\ Len(llm_outcomes) = retry_config.max_attempts
    /\ \A i \in 1..Len(llm_outcomes) :
           llm_outcomes[i] \in ModelErrors /\ IsRetryableError(llm_outcomes[i])
    /\ llm_outcomes[1] # LastOutcome
    /\ llm_ret = LastOutcome

(***************************************************************************)
(* The functions on their own.                                             *)
(***************************************************************************)
FunSpecInit ==
    /\ WorkflowInit({0}, {0})
    /\ BreakerInit({LLMCircuitConfig})
    /\ WrapperInit({RETRY_CONFIG_DEFAULT})
    /\ FunInit
    /\ RegistryInit
    /\ SharedInit
    /\ AgentInit({"researcher"}, {FALSE})
    /\ ConcurrentInit

FunNext ==
    \/ ClassifyError
    \/ AskDelay
    \/ FactCheckerParses
    \/ CriticParses
    \/ ResearcherParses
    \/ CreateContext

FunSpec == FunSpecInit /\ [][FunNext]_vars

(***************************************************************************)
(* Properties of the functions.                                            *)
(***************************************************************************)
\* the fact-checker produced an event
FactCheckDone == fn = "FactCheckerAgent._run" /\ fn_out.raised = "none"

\* the claims of the response the fact-checker was given, when they are a list
GivenClaims == Get(fn_arg.response.data, "claims", PyList(<<>>))

\* C22 as stated: the event the fact-checker produces has at least as many
\* claims as the research event has findings.
C22_ClaimsCoverFindings ==
    FactCheckDone => Len(fn_out.value.claims) >= Len(fn_arg.findings)

\* the status the claim names for a claim of the response
ExpectedStatus(claim) ==
    LET status == Get(claim, "status", PyStr(<<>>)).v
    IN  CASE status \in {<<"verified">>, <<"Verified">>, <<"VERIFIED">>} ->
                 <<"verified">>
          [] status \in {<<"partially", "_", "verified">>,
                         <<"partially", " ", "verified">>,
                         <<"Partially", " ", "verified">>} ->
                 <<"partially", "_", "verified">>
          [] status \in {<<"disputed">>, <<"Disputed">>} -> <<"disputed">>
          [] OTHER -> <<"unverified">>

\* C23: in the event the fact-checker produces, every claim and every
\* verified claim has one of the four statuses; a claim of the response keeps
\* its fields and gets the status its own status normalises to, unverified
\* when that is empty, missing or unrecognised; the claims added for uncovered
\* findings are unverified.
C23_StatusesNormalized ==
    FactCheckDone =>
        LET out == fn_out.value.claims
            verified == fn_out.value.verified_claims
            Valid(c) == /\ "status" \in DOMAIN c.v
                        /\ c.v.status.t = "str"
                        /\ c.v.status.v \in {<<"verified">>,
                                             <<"partially", "_", "verified">>,
                                             <<"disputed">>, <<"unverified">>}
        IN  /\ \A i \in 1..Len(out) : Valid(out[i])
            /\ \A i \in 1..Len(verified) : Valid(verified[i])
            /\ (Decodes(fn_arg.response) /\ GivenClaims.t = "list") =>
                   /\ Len(out) >= Len(GivenClaims.v)
                   /\ \A i \in 1..Len(GivenClaims.v) :
                          /\ out[i].v.status.v = ExpectedStatus(GivenClaims.v[i])
                          /\ DOMAIN out[i].v = DOMAIN GivenClaims.v[i].v \cup {"status"}
                          /\ \A k \in DOMAIN GivenClaims.v[i].v \ {"status"} :
                                 out[i].v[k] = GivenClaims.v[i].v[k]
                   /\ \A i \in (Len(GivenClaims.v) + 1)..Len(out) :
                          /\ out[i].v.status.v = <<"unverified">>
                          /\ out[i].v.text.v \in
                                 {fn_arg.findings[j] : j \in 1..Len(fn_arg.findings)}

C23_Witness ==
    /\ FactCheckDone
    /\ Decodes(fn_arg.response)
    /\ GivenClaims.t = "list"
    /\ Len(GivenClaims.v) = 1
    /\ Get(GivenClaims.v[1], "status", PyNone) =
           PyStr(<<"Partially", " ", "verified">>)
    /\ fn_out.value.claims[1].v.status.v = <<"partially", "_", "verified">>
    /\ Len(fn_out.value.claims) = 3
    /\ fn_out.value.claims[3].v.status.v = <<"unverified">>

\* C31 as stated: the findings the researcher's parsing step hands to the
\* ResearchCompleted event are a non-empty list, whatever the response.
C31_FindingsNonEmpty ==
    (fn = "ResearcherAgent._parse_response" /\ fn_out.raised = "none") =>
        /\ fn_out.value.findings.t = "list"
        /\ fn_out.value.findings.v # <<>>

\* C32 as stated: in the event the fact-checker produces, every verified claim
\* is one of the claims and has status verified.
C32_VerifiedClaimsAreVerified ==
    FactCheckDone =>
        \A i \in 1..Len(fn_out.value.verified_claims) :
            LET claim == fn_out.value.verified_claims[i]
            IN  /\ \E j \in 1..Len(fn_out.value.claims) :
                       fn_out.value.claims[j] = claim
                /\ claim.v.status.v = <<"verified">>

\* C24 as stated: the response-parsing step of the fact-checker, of the critic
\* and of the researcher never raises, whatever the response.
C24_ParsingNeverRaises ==
    fn \in {"FactCheckerAgent._run", "CriticAgent._run",
            "ResearcherAgent._parse_response"} => fn_out.raised = "none"

\* C26 as stated: a context created without a correlation id has a non-empty
\* correlation id, different from that of every other context created without
\* one; a context created with a correlation id has exactly that id.
C26_FreshCorrelationId ==
    fn = "AgentContext.create" =>
        \A i \in 1..Len(fn_arg) :
            IF fn_arg[i] = None
            THEN /\ fn_out[i].correlation_id # <<>>
                 /\ \A j \in 1..Len(fn_arg) :
                        (j # i /\ fn_arg[j] = None) =>
                            fn_out[j].correlation_id # fn_out[i].correlation_id
            ELSE fn_out[i].correlation_id = fn_arg[i][1]

\* C29: an error whose lower-cased message holds a billing, quota or account
\* keyword is non-retryable whatever else its message holds and whatever its
\* type; any other error is retryable when its message holds a rate-limit or
\* unavailable keyword or its type is in the retryable list, and non-retryable
\* otherwise.
C29_ClassificationOrder ==
    fn = "is_retryable_error" =>
        LET message == Lower(fn_arg.msg)
            Holds(keywords) == \E k \in keywords : Contains(message, k)
        IN  fn_out = IF Holds(non_retryable_keywords)
                     THEN FALSE
                     ELSE IF Holds(retryable_keywords)
                     THEN TRUE
                     ELSE fn_arg.type \in retryable_types

C29_Witness ==
    /\ fn = "is_retryable_error"
    /\ fn_arg.type = "RateLimitError"
    /\ Contains(Lower(fn_arg.msg), <<"rate", "_", "limit">>)
    /\ Contains(Lower(fn_arg.msg), <<"quota">>)
    /\ fn_out = FALSE

\* min(base_delay * exponential_base^n, max_delay) for the configuration
CappedDelay(cfg, n) ==
    LET p == cfg.base_delay * Pow(cfg.exponential_base, n)
        q == Pow(2, n)
    IN  IF p <= cfg.max_delay * q THEN Frac(p, q) ELSE Frac(cfg.max_delay, 1)

\* base_delay=2, exponential_base=2, max_delay=60 without jitter
ExampleDelayConfig == RetryDelayConfig(20, 600, 4, 0)

\* the delays the claim lists for it, n = 1..6, in tenths of a second
ExampleDelays == <<40, 80, 160, 320, 600, 600>>

\* get_delay(n) without jitter is the capped exponential, at most max_delay,
\* and is the listed value for the example configuration
DelayIsCappedExponential ==
    LET cfg == fn_arg.config
        n == fn_arg.attempt
    IN  /\ FracEq(fn_out, CappedDelay(cfg, n))
        /\ FracLeq(fn_out, Frac(cfg.max_delay, 1))
        /\ (cfg = ExampleDelayConfig /\ n <= Len(ExampleDelays)) =>
               FracEq(fn_out, Frac(ExampleDelays[n], 1))

\* get_delay(n) is at least get_delay(n - 1)
DelayNotBelowPrevious ==
    fn_arg.attempt >= 2 =>
        \A d \in GetDelay(fn_arg.config, fn_arg.attempt - 1) : FracLeq(d, fn_out)

RegistrySpecInit ==
    /\ WorkflowInit({0}, {0})
    /\ BreakerInit({LLMCircuitConfig})
    /\ WrapperInit({RETRY_CONFIG_DEFAULT})
    /\ FunInit
    /\ RegistryInit
    /\ SharedInit
    /\ AgentInit({"researcher"}, {FALSE})
    /\ ConcurrentInit

RegistryNext ==
    \/ \E name \in BreakerNames, cfg \in ConfigArgs : GetOrCreate(name, cfg)
    \/ \E h \in 1..MaxRegistryCalls : HolderRecordsFailure(h)

RegistrySpec == RegistrySpecInit /\ [][RegistryNext]_vars

\* the first get_or_create call made with the name of the h-th call
FirstCallFor(h) ==
    Least({k \in 1..h : reg_handles[k].name = reg_handles[h].name})

SharedSpecInit ==
    /\ WorkflowInit({0}, {0})
    /\ BreakerInit({LLMCircuitConfig})
    /\ WrapperInit(RetryConfigs)
    /\ FunInit
    /\ RegistryInit
    /\ SharedInit
    /\ AgentInit({"researcher"}, {FALSE})
    /\ ConcurrentInit

SharedNext ==
    \/ \E c \in Callers : SharedAInvoke(c)
    \/ \E c \in Callers : SharedModelReturns(c)
    \/ \E c \in Callers : SharedModelRaises(c)
    \/ \E c \in Callers : SharedBackoffSleep(c)
    \/ SharedTimePasses

SharedSpec == SharedSpecInit /\ [][SharedNext]_vars

\* every ainvoke call has finished, admitted or rejected
AllCallsFinished == \A c \in Callers : sh_pc[c] \in {"done", "rejected"}

\* C21 as stated: once all calls have finished, total_calls =
\* successful_calls + failed_calls = the number of admitted calls, and the
\* breaker is the one obtained by applying the calls' state reads and
\* success/failure events one at a time in the order they happened.
C21_NoLostUpdate ==
    AllCallsFinished =>
        /\ cb_stats.total_calls = cb_stats.successful_calls + cb_stats.failed_calls
        /\ cb_stats.total_calls = sh_admitted
        /\ BreakerValue = Replay(sh_events, NewBreakerValue)

(***************************************************************************)
(* Correlation ids and input validation in a run of the workflow.          *)
(***************************************************************************)
\* the events stored in the WorkflowResult
StoredEvents ==
    {result[slot] : slot \in {"research", "fact_check", "synthesis", "report",
                              "review"}} \ {NULL}

\* C25 as stated: every event stored in the WorkflowResult of a run has the
\* correlation id of the run's AgentContext, whether the caller gave a
\* correlation id or not.
C25_EventsCarryRunCorrelationId ==
    context # NULL =>
        \A ev \in StoredEvents : ev.correlation_id = context.correlation_id

\* execute or execute_sequential is called with the topic
Started(topic) ==
    \E cid \in CorrelationIds :
        Execute(topic, cid) \/ ExecuteSequential(topic, cid)

\* C27: a run started with a topic that is empty or blank enters the
\* Researcher's execute, which raises "Invalid input for agent researcher"
\* without entering _run: the run is over at once with status FAILED and that
\* message as its error; with any other topic the Researcher's _run is entered.
C27_InvalidInputFailsBeforeRun ==
    [][\A topic \in Topics :
           Started(topic) =>
               IF Strip(topic) = <<>>
               THEN /\ pc' = "done"
                    /\ calls' = <<"researcher">>
                    /\ failedCall' = "researcher"
                    /\ result'.status = "failed"
                    /\ result'.error =
                           Some(<<"Invalid", "input", "for", "agent", "researcher">>)
                    /\ StoredEvents' = {}
               ELSE /\ pc' = "research"
                    /\ result'.status = "research"
                    /\ result'.error = None]_vars

C27_Witness ==
    /\ pc = "done"
    /\ calls = <<"researcher">>
    /\ failedCall = "researcher"
    /\ raisedExc = NoExc
    /\ result.status = "failed"
    /\ result.error = Some(<<"Invalid", "input", "for", "agent", "researcher">>)

\* C39 as stated: whenever execute returns COMPLETED with a review, the review
\* is of the report in the report slot, and that report was written from the
\* synthesis in the synthesis slot (loop ended by approval, by the score
\* threshold or by exhausting max_iterations).
C39_ReviewIsOfReturnedReport ==
    (pc = "done" /\ mode = "execute" /\ result.status = "completed"
         /\ result.review # NULL) =>
        /\ result.review.report = result.report.id
        /\ result.report.synthesis = result.synthesis.id

\* WorkflowStage values in the order execute assigns them; COMPLETED and FAILED
\* are the two terminal ones
StageRank(status) ==
    CASE status = "research" -> 1
      [] status = "fact_check" -> 2
      [] status = "synthesis" -> 3
      [] status = "writing" -> 4
      [] status = "review" -> 5
      [] status \in {"completed", "failed"} -> 6

\* the slot of WorkflowResult that is filled before the status is assigned
SlotBefore(status) ==
    CASE status = "fact_check" -> result.research
      [] status = "synthesis" -> result.fact_check
      [] status = "writing" -> result.synthesis
      [] status = "review" -> result.report

\* C38: during execute the status starts as RESEARCH and each change takes it
\* one stage forward (RESEARCH, FACT_CHECK, SYNTHESIS, WRITING, REVIEW) or to a
\* terminal status; it is REVIEW while Synthesizer and Writer run inside the
\* review loop; a status past RESEARCH is entered only with the previous
\* stage's slot filled; COMPLETED is entered from REVIEW only; nothing follows
\* COMPLETED or FAILED.
C38_StatusMovesForward ==
    mode = "execute" =>
        /\ statuses # <<>>
        /\ statuses[1] = "research"
        /\ statuses[Len(statuses)] = result.status
        /\ \A i \in 1..(Len(statuses) - 1) :
               /\ StageRank(statuses[i]) < 6
               /\ \/ statuses[i + 1] = "failed"
                  \/ StageRank(statuses[i + 1]) = StageRank(statuses[i]) + 1
               /\ statuses[i + 1] = "completed" => statuses[i] = "review"
        /\ \A i \in 1..Len(statuses) :
               StageRank(statuses[i]) \in 2..5 => SlotBefore(statuses[i]) # NULL
        /\ pc \in {"resynthesis", "rewriting"} => result.status = "review"
        /\ pc = "done" <=> StageRank(result.status) = 6

\* a run whose Synthesizer raised inside the review loop: FAILED entered from REVIEW
C38_Witness ==
    /\ mode = "execute"
    /\ pc = "done"
    /\ failedCall = "synthesizer"
    /\ statuses = <<"research", "fact_check", "synthesis", "writing", "review", "failed">>

\* the agent whose execute is entered k-th in a run of execute
ExpectedCall(k) ==
    IF k <= 4
    THEN <<"researcher", "fact_checker", "synthesizer", "writer">>[k]
    ELSE <<"critic", "synthesizer", "writer">>[((k - 5) % 3) + 1]

\* the slot of the result res the workflow stores the agent's event in
SlotOf(agent, res) ==
    CASE agent = "researcher" -> res.research
      [] agent = "fact_checker" -> res.fact_check
      [] agent = "synthesizer" -> res.synthesis
      [] agent = "writer" -> res.report
      [] agent = "critic" -> res.review

\* the input of a call is the event ev, or holds it as one of its arguments
Takes(input, ev) ==
    IF "kind" \in DOMAIN input
    THEN input = ev
    ELSE \E f \in DOMAIN input \ {"format"} : input[f] = ev

\* the call entered in this step follows a call that returned in this step,
\* whose event is stored and handed to the new call
CallFollowsReturn ==
    LET prev == SlotOf(calls[Len(calls)], result')
    IN  /\ prev # NULL
        /\ prev.id = nextId
        /\ Takes(inputs'[Len(inputs')], prev)

\* C37 as stated: within one execute run the agents are called one at a time
\* in the order Researcher, FactChecker, Synthesizer, Writer, then rounds of
\* Critic, Synthesizer, Writer; a call starts only when the previous call has
\* returned, with the event the previous call stored as its input; no agent is
\* called after a call has raised.
C37_SequentialCalls ==
    /\ [](mode = "execute" =>
              /\ Len(inputs) = Len(calls)
              /\ \A k \in 1..Len(calls) : calls[k] = ExpectedCall(k)
              /\ failedCall # "none" => pc \in {"done", "raised"})
    /\ [][(mode' = "execute" /\ calls' # calls) =>
              /\ Len(calls') = Len(calls) + 1
              /\ failedCall = "none"
              /\ pc \notin {"done", "raised"}
              /\ calls # <<>> => CallFollowsReturn]_vars

(***************************************************************************)
(* One agent stage on its own: execute of one of the five agents, on a     *)
(* breaker other holders may have opened.                                  *)
(***************************************************************************)
AgentSpecInit ==
    /\ WorkflowInit({0}, {0})
    /\ BreakerInit(LLMConfigs)
    /\ WrapperInit(RetryConfigs)
    /\ FunInit
    /\ RegistryInit
    /\ SharedInit
    /\ AgentInit(AgentNames, BOOLEAN)
    /\ ConcurrentInit

AgentNext ==
    \/ AgentExecute
    \/ AgentModelReturns
    \/ ResearcherCallsTools
    \/ \E e \in AgentModelErrors : AgentModelRaises(e)
    \/ AgentInnerBackoff
    \/ AgentOuterBackoff
    \/ AgentTimePasses
    \/ AgentBreakerFails

AgentSpec == AgentSpecInit /\ [][AgentNext]_vars

\* C33 as stated: every model invocation an agent starts goes through
\* ainvoke of ResilientLLMWrapper, and none is started while the breaker is
\* OPEN.
C33_InvocationsGoThroughWrapper ==
    ag_inv # NoInvocation =>
        /\ ag_inv.via = "wrapper"
        /\ ag_inv.breaker # "open"

\* C34 as stated: in an execute call whose model invocations all fail with a
\* retryable error the model is invoked at most max_attempts times.
C34_AtMostMaxAttemptsInvocations ==
    ag_all_retryable => ag_invocations <= retry_config.max_attempts

\* C35 as stated: execute entered with the breaker OPEN raises
\* CircuitOpenError after one rejected attempt, without a backoff sleep and
\* without a model invocation.
C35_OpenBreakerFailsFast ==
    (ag_open_at_entry /\ ag_pc # "idle") =>
        /\ ag_pc = "raised"
        /\ ag_exc = LLMCircuitOpenError
        /\ ag_rejections = 1
        /\ ag_sleeps = 0
        /\ ag_invocations = 0

(***************************************************************************)
(* Concurrent executions on their own.                                     *)
(***************************************************************************)
\* the workflow is constructed with one review round
ConcurrentSpecInit ==
    /\ WorkflowInit({1}, {0})
    /\ BreakerInit({LLMCircuitConfig})
    /\ WrapperInit({RETRY_CONFIG_DEFAULT})
    /\ FunInit
    /\ RegistryInit
    /\ SharedInit
    /\ AgentInit({"researcher"}, {FALSE})
    /\ ConcurrentInit

ConcurrentNext ==
    \/ \E e \in Executions, cid \in ExecutionIds : ConcurrentExecute(e, cid)
    \/ \E e \in Executions, accepted \in BOOLEAN : ConcurrentAgentReturns(e, accepted)
    \/ \E e \in Executions, exc \in Exceptions : ConcurrentAgentRaises(e, exc)

ConcurrentSpec == ConcurrentSpecInit /\ [][ConcurrentNext]_vars

\* every event stored in the result of execution e was returned to e
OwnsResult(e) ==
    \A ev \in {cx_result[e].research, cx_result[e].fact_check, cx_result[e].synthesis,
               cx_result[e].report, cx_result[e].review} :
        ev # NULL => ev.execution = e

\* C36 as stated: concurrent executions on one workflow own their context and
\* result, and every record an agent logs during a call carries the
\* correlation id of the execution that made the call.
C36_LogsCarryOwnCorrelationId ==
    /\ \A e \in Executions : OwnsResult(e)
    /\ \A i \in 1..Len(cx_logs) :
           cx_logs[i].correlation_id = cx_context[cx_logs[i].execution].correlation_id

====
